---- MODULE Spec2Model ----
(***************************************************************************)
(* StravaAnalyzer: the analysis pipeline, the zone-edge stamper, the       *)
(* per-activity fitness recurrence, the metric-key namespace of the        *)
(* analyzer and the stream splitter, as state machines.                    *)
(*                                                                         *)
(* A pandas cell that may be empty (None / NaN) is a sequence: <<>> is the *)
(* empty cell, <<v>> a cell holding v.  A table is a sequence of rows.     *)
(* Dates are integers (days, or ticks of a day where the text says so).    *)
(***************************************************************************)
EXTENDS Integers, Sequences, FiniteSets, TLC

VARIABLES
    \* ---- ZoneEdgesManager.apply_zone_edges_with_backpropagation ----
    zIn,        \* the table handed to the call (enriched_df)
    zT,         \* config_timestamp
    zSettings,  \* the Settings object of the manager
    zOut,       \* the table the call returned
    zPhase,     \* "in": before the call, "out": after it
    zCalls,     \* number of calls made on this table so far
    \* ---- StreamSplitter.split ----
    sIn,        \* the processed stream handed to split (stream_df)
    sOut,       \* the SplitResult returned
    sPhase,     \* "in": before the call, "out": after it
    \* ---- AnalysisService._compute_per_activity_training_load ----
    fIn,        \* the table handed to the call (df)
    fOut,       \* the table the call returned
    fPhase,     \* "in": before the call, "out": after it
    \* ---- ActivityAnalyzer.analyze ----
    aIn,        \* the activity row and its processed stream
    aOut,       \* the AnalysisResult returned, or the exception raised
    aPhase,     \* "in": before the call, "out": after it
    \* ---- the pipeline: the run command, run_analysis, save_results ----
    pActs,      \* activities.csv: the activity rows in file order
    pStreams,   \* per activity id, the state of its stream file
    pSettings,  \* the Settings of the runs
    pFiles,     \* the files of processed_data_dir, by name
    pc,         \* where the run stands: "idle", "analysed", "raw_saved", "moving_saved"
    pResult,    \* the DualAnalysisResult held between run_analysis and save_results
    pRun,       \* what the run in progress has done so far
    pHist,      \* the finished runs, oldest first
    \* ---- one call of a stream or metric function ----
    uIn,        \* the arguments of the call
    uOut,       \* what the call returned, or the exception it raised
    uPhase      \* "in": before the call, "out": after it

zoneVars == <<zIn, zT, zSettings, zOut, zPhase, zCalls>>

splitVars == <<sIn, sOut, sPhase>>

fitVars == <<fIn, fOut, fPhase>>

anaVars == <<aIn, aOut, aPhase>>

pipeVars == <<pActs, pStreams, pSettings, pFiles, pc, pResult, pRun, pHist>>

unitVars == <<uIn, uOut, uPhase>>

vars == <<zoneVars, splitVars, fitVars, anaVars, pipeVars, unitVars>>

\* What each component leaves alone.
notZone == <<splitVars, fitVars, anaVars, pipeVars, unitVars>>

notSplit == <<zoneVars, fitVars, anaVars, pipeVars, unitVars>>

notFit == <<zoneVars, splitVars, anaVars, pipeVars, unitVars>>

notAna == <<zoneVars, splitVars, fitVars, pipeVars, unitVars>>

notPipe == <<zoneVars, splitVars, fitVars, anaVars, unitVars>>

notUnit == <<zoneVars, splitVars, fitVars, anaVars, pipeVars>>

(***************************************************************************)
(* A component that is not exercised by a specification stays idle.        *)
(***************************************************************************)
ZoneIdle ==
    /\ zIn = <<>>
    /\ zT = 0
    /\ zSettings = <<>>
    /\ zOut = <<>>
    /\ zPhase = "off"
    /\ zCalls = 0

SplitIdle ==
    /\ sIn = <<>>
    /\ sOut = <<>>
    /\ sPhase = "off"

FitIdle ==
    /\ fIn = <<>>
    /\ fOut = <<>>
    /\ fPhase = "off"

AnaIdle ==
    /\ aIn = <<>>
    /\ aOut = <<>>
    /\ aPhase = "off"

PipeIdle ==
    /\ pActs = <<>>
    /\ pStreams = <<>>
    /\ pSettings = <<>>
    /\ pFiles = <<>>
    /\ pc = "off"
    /\ pResult = <<>>
    /\ pRun = <<>>
    /\ pHist = <<>>

UnitIdle ==
    /\ uIn = <<>>
    /\ uOut = <<>>
    /\ uPhase = "off"

IdleButZone == SplitIdle /\ FitIdle /\ AnaIdle /\ PipeIdle /\ UnitIdle

IdleButSplit == ZoneIdle /\ FitIdle /\ AnaIdle /\ PipeIdle /\ UnitIdle

IdleButFit == ZoneIdle /\ SplitIdle /\ AnaIdle /\ PipeIdle /\ UnitIdle

IdleButAna == ZoneIdle /\ SplitIdle /\ FitIdle /\ PipeIdle /\ UnitIdle

IdleButPipe == ZoneIdle /\ SplitIdle /\ FitIdle /\ AnaIdle /\ UnitIdle

IdleButUnit == ZoneIdle /\ SplitIdle /\ FitIdle /\ AnaIdle /\ PipeIdle

(***************************************************************************)
(* Generic helpers                                                         *)
(***************************************************************************)
NaN == <<>>

IsNa(cell) == cell = NaN

Range(s) == {s[i] : i \in 1..Len(s)}

Abs(x) == IF x < 0 THEN -x ELSE x

\* All orders of the indices 1..n.
Perms(n) == {p \in [1..n -> 1..n] : \A i, j \in 1..n : i # j => p[i] # p[j]}

\* sorted(list) on numbers: insertion of x into an ascending sequence.
RECURSIVE InsertAsc(_, _)
InsertAsc(x, s) ==
    IF s = <<>> THEN <<x>>
    ELSE IF x <= Head(s) THEN <<x>> \o s
    ELSE <<Head(s)>> \o InsertAsc(x, Tail(s))

RECURSIVE SortedAsc(_)
SortedAsc(s) == IF s = <<>> THEN <<>> ELSE InsertAsc(Head(s), SortedAsc(Tail(s)))

\* DataFrame.sort_values(col, ascending=False).reset_index(drop=True): the
\* rows by non-increasing date.  pandas sorts with kind="quicksort", which
\* numpy carries out as an insertion sort on an array of at most 16
\* elements, as all the tables here are: rows with equal dates keep the
\* order they came in.  The result is the one member of the set.
SortValuesDesc(tab) ==
    {[i \in 1..Len(tab) |-> tab[p[i]]] : p \in
        {q \in Perms(Len(tab)) :
            \A i, j \in 1..Len(tab) :
                i < j => \/ tab[q[i]].date > tab[q[j]].date
                         \/ tab[q[i]].date = tab[q[j]].date /\ q[i] < q[j]}}

\* DataFrame.sort_values(col, ascending=True).reset_index(drop=True), with
\* equal dates in the order they came in as well.
SortValuesAsc(tab) ==
    {[i \in 1..Len(tab) |-> tab[p[i]]] : p \in
        {q \in Perms(Len(tab)) :
            \A i, j \in 1..Len(tab) :
                i < j => \/ tab[q[i]].date < tab[q[j]].date
                         \/ tab[q[i]].date = tab[q[j]].date /\ q[i] < q[j]}}

(***************************************************************************)
(* Settings: zone tables computed from the thresholds                      *)
(***************************************************************************)
\* int(pct/100 * x) for the percentages the settings use.
IntPct(pct, x) == (pct * x) \div 100

Zone(l, r) == [left |-> l, right |-> r, inf |-> FALSE]

LastZone(l) == [left |-> l, right |-> 0, inf |-> TRUE]

\* Settings._compute_power_zones, percentage (Coggan) branch.
CogganPowerZones(ftp) ==
    << Zone(0, IntPct(55, ftp)),
       Zone(IntPct(55, ftp), IntPct(75, ftp)),
       Zone(IntPct(75, ftp), IntPct(90, ftp)),
       Zone(IntPct(90, ftp), IntPct(105, ftp)),
       Zone(IntPct(105, ftp), IntPct(120, ftp)),
       Zone(IntPct(120, ftp), IntPct(150, ftp)),
       LastZone(IntPct(150, ftp)) >>

\* Settings._compute_hr_zones, percentage branch.
PercentHrZones(fthr) ==
    << Zone(0, IntPct(85, fthr)),
       Zone(IntPct(85, fthr), IntPct(95, fthr)),
       Zone(IntPct(95, fthr), IntPct(105, fthr)),
       Zone(IntPct(105, fthr), IntPct(120, fthr)),
       LastZone(IntPct(120, fthr)) >>

\* Settings(ftp=..., fthr=...) with no LT values and no explicit tables.
SettingsOf(ftp, fthr) ==
    [ftp |-> ftp, fthr |-> fthr,
     power_zones |-> CogganPowerZones(ftp),
     hr_zone_ranges |-> PercentHrZones(fthr)]

\* The right edges of a zone table, infinity excluded, ascending.
RECURSIVE RightEdges(_)
RightEdges(zones) ==
    IF zones = <<>> THEN <<>>
    ELSE IF Head(zones).inf THEN RightEdges(Tail(zones))
    ELSE <<Head(zones).right>> \o RightEdges(Tail(zones))

get_power_zone_edges(settings) == SortedAsc(RightEdges(settings.power_zones))

get_hr_zone_edges(settings) == SortedAsc(RightEdges(settings.hr_zone_ranges))

(***************************************************************************)
(* StreamSplitter (data/splitter.py)                                       *)
(*                                                                         *)
(* A stream is [has_moving, rows]; a sample is [time, moving, k], where k  *)
(* stands for the other columns of the sample (watts, heartrate, ...): it  *)
(* is the sample's position in the stream handed to split.  has_moving     *)
(* says whether the stream has a "moving" column.                          *)
(***************************************************************************)
\* _create_raw_dataframe: copy, reset_index(drop=True).
CreateRawDataframe(stream_df) ==
    [i \in 1..Len(stream_df.rows) |->
        [time |-> stream_df.rows[i].time, moving |-> stream_df.rows[i].moving,
         k |-> stream_df.rows[i].k]]

\* stream_df[stream_df["moving"]], or every sample without the column.
MovingSamples(stream_df) ==
    IF stream_df.has_moving
    THEN SelectSeq(stream_df.rows, LAMBDA smp : smp.moving)
    ELSE stream_df.rows

\* Lines 139-142 on the filtered samples: original_time keeps the time of
\* the sample, time becomes np.arange(len(moving_df)).
RepitchTimeAfterOverwrite(moving) ==
    [j \in 1..Len(moving) |->
        [time |-> j - 1, original_time |-> j - 1,
         moving |-> moving[j].moving, k |-> moving[j].k]]

RepitchTime(moving) ==
    [j \in 1..Len(moving) |->
        [time |-> j - 1, original_time |-> moving[j].time,
         moving |-> moving[j].moving, k |-> moving[j].k]]

\* _create_moving_dataframe; pd.DataFrame() when no sample is moving.
CreateMovingDataframe(stream_df) == RepitchTime(MovingSamples(stream_df))

\* _calculate_duration
CalculateDuration(rows) ==
    IF rows = <<>> THEN 0 ELSE rows[Len(rows)].time - rows[1].time

\* The sum of s[lo..hi], by halves.
RECURSIVE SumRange(_, _, _)
SumRange(s, lo, hi) ==
    IF lo > hi THEN 0
    ELSE IF lo = hi THEN s[lo]
    ELSE SumRange(s, lo, (lo + hi) \div 2) + SumRange(s, (lo + hi) \div 2 + 1, hi)

\* series.sum()
SumSeq(s) == SumRange(s, 1, Len(s))

Min2(a, b) == IF a < b THEN a ELSE b

\* _calculate_moving_duration: the time differences between consecutive
\* moving samples, the first counted as 1, each clipped to at most 2.
CalculateMovingDuration(stream_df) ==
    IF stream_df.rows = <<>> THEN 0
    ELSE IF ~stream_df.has_moving THEN CalculateDuration(stream_df.rows)
    ELSE LET m == MovingSamples(stream_df) IN
         IF Len(m) < 2 THEN Len(m)
         ELSE SumSeq([j \in 1..Len(m) |->
                         IF j = 1 THEN 1 ELSE Min2(m[j].time - m[j - 1].time, 2)])

\* StreamSplitter.split
split(stream_df) ==
    IF stream_df.rows = <<>>
    THEN [raw_df |-> <<>>, moving_df |-> <<>>,
          raw_duration_seconds |-> 0, moving_duration_seconds |-> 0]
    ELSE [raw_df |-> CreateRawDataframe(stream_df),
          moving_df |-> CreateMovingDataframe(stream_df),
          raw_duration_seconds |-> CalculateDuration(CreateRawDataframe(stream_df)),
          moving_duration_seconds |-> CalculateMovingDuration(stream_df)]

\* ---- the inputs of the splitter specification ----
MaxSamples == 3

MaxSplitTime == 3

SplitStreams ==
    UNION {{[has_moving |-> hm,
             rows |-> [i \in 1..n |->
                          [time |-> t[i], moving |-> IF hm THEN mv[i] ELSE TRUE, k |-> i]]] :
                t \in [1..n -> 0..MaxSplitTime],
                mv \in IF hm THEN [1..n -> BOOLEAN] ELSE {[i \in 1..n |-> TRUE]}} :
           n \in 0..MaxSamples, hm \in BOOLEAN}

SplitInit ==
    /\ sIn \in SplitStreams
    /\ sOut = <<>>
    /\ sPhase = "in"

SplitCall ==
    /\ sPhase = "in"
    /\ sOut' = split(sIn)
    /\ sPhase' = "out"
    /\ UNCHANGED <<sIn, notSplit>>

\* The caller drops the result; the stream may be split again.
SplitDiscard ==
    /\ sPhase = "out"
    /\ sOut' = <<>>
    /\ sPhase' = "in"
    /\ UNCHANGED <<sIn, notSplit>>

SplitNext == SplitCall \/ SplitDiscard

(***************************************************************************)
(* ZoneEdgesManager (metrics/zone_edges.py)                                *)
(*                                                                         *)
(* A row of the enriched table: [id, date, pz, hz]; pz[c] is the cell of   *)
(* column power_zone_c, hz[c] the cell of column hr_zone_c.  A column the  *)
(* code creates with df[col] = None is a column of empty cells.            *)
(***************************************************************************)
\* all(df[col].notna().all() for col in all_cols)
AllZoneColsFilled(df) ==
    \A i \in 1..Len(df) :
        /\ \A c \in 1..Len(df[i].pz) : ~IsNa(df[i].pz[c])
        /\ \A c \in 1..Len(df[i].hz) : ~IsNa(df[i].hz[c])

\* Mutation: the anchor is looked for among the rows that still have an
\* empty edge column.
ClosestUnfilledIdx(df, T) ==
    LET unfilled == {i \in 1..Len(df) : ~AllZoneColsFilled(<<df[i]>>)} IN
    CHOOSE k \in unfilled :
        /\ \A j \in unfilled : Abs(df[k].date - T) <= Abs(df[j].date - T)
        /\ \A j \in unfilled : j < k => Abs(df[j].date - T) > Abs(df[k].date - T)

\* df["date_diff"].idxmin(): the first row with the least |date - T|.
ClosestIdx(df, T) ==
    CHOOSE k \in 1..Len(df) :
        /\ \A j \in 1..Len(df) : Abs(df[k].date - T) <= Abs(df[j].date - T)
        /\ \A j \in 1..(k - 1) : Abs(df[j].date - T) > Abs(df[k].date - T)

\* Lines 165-169: every edge column of the closest row is set.
StampRow(row, power_edges, hr_edges) ==
    [row EXCEPT !.pz = [c \in 1..Len(power_edges) |-> <<power_edges[c]>>],
                !.hz = [c \in 1..Len(hr_edges) |-> <<hr_edges[c]>>]]

\* Lines 175-181: a column of an older row is filled only where it is empty.
FillRowOverwrite(row, power_edges, hr_edges) ==
    StampRow(row, power_edges, hr_edges)

FillRow(row, power_edges, hr_edges) ==
    [row EXCEPT
        !.pz = [c \in 1..Len(power_edges) |->
                   IF IsNa(row.pz[c]) THEN <<power_edges[c]>> ELSE row.pz[c]],
        !.hz = [c \in 1..Len(hr_edges) |->
                   IF IsNa(row.hz[c]) THEN <<hr_edges[c]>> ELSE row.hz[c]]]

\* Lines 154-181 on the sorted table: stamp the closest row, then
\* for i in range(closest_idx + 1, len(df)) fill the rows after it.
StampAndBackfillAllRows(df, T, settings) ==
    [i \in 1..Len(df) |->
        IF i = ClosestIdx(df, T)
        THEN StampRow(df[i], get_power_zone_edges(settings), get_hr_zone_edges(settings))
        ELSE FillRow(df[i], get_power_zone_edges(settings), get_hr_zone_edges(settings))]

StampAndBackfill(df, T, settings) ==
    [i \in 1..Len(df) |->
        IF i = ClosestIdx(df, T)
        THEN StampRow(df[i], get_power_zone_edges(settings), get_hr_zone_edges(settings))
        ELSE IF i > ClosestIdx(df, T)
        THEN FillRow(df[i], get_power_zone_edges(settings), get_hr_zone_edges(settings))
        ELSE df[i]]

\* Lines 130-193 on the sorted table, with the early return of line 132.
ApplySorted(df, T, settings) ==
    IF AllZoneColsFilled(df) THEN df ELSE StampAndBackfill(df, T, settings)

\* apply_zone_edges_with_backpropagation: the tables the call may return.
apply_zone_edges_with_backpropagation(enriched_df, T, settings) ==
    IF enriched_df = <<>> THEN {enriched_df}
    ELSE {ApplySorted(df, T, settings) : df \in SortValuesDesc(enriched_df)}

\* ---- the inputs of the zone-edge specification ----
MaxZoneRows == 3

MaxZoneDate == 2

MaxZoneCalls == 2

CurFtp == 200

CurFthr == 160

DefaultFtp == 285

DefaultFthr == 170

\* Edges a row may carry from an earlier run made under other settings.
OldSettings == SettingsOf(DefaultFtp, DefaultFthr)

CurSettings == SettingsOf(CurFtp, CurFthr)

EmptyCells(n) == [c \in 1..n |-> NaN]

OldCells(edges) == [c \in 1..Len(edges) |-> <<edges[c]>>]

\* What a row holds before the call: nothing, every edge, or power_zone_1 only.
ZoneRow(id, date, pattern) ==
    [id |-> id, date |-> date,
     pz |-> IF pattern = "all" THEN OldCells(get_power_zone_edges(OldSettings))
            ELSE IF pattern = "first"
            THEN [EmptyCells(Len(get_power_zone_edges(CurSettings)))
                    EXCEPT ![1] = <<get_power_zone_edges(OldSettings)[1]>>]
            ELSE EmptyCells(Len(get_power_zone_edges(CurSettings))),
     hz |-> IF pattern = "all" THEN OldCells(get_hr_zone_edges(OldSettings))
            ELSE EmptyCells(Len(get_hr_zone_edges(CurSettings)))]

ZoneTables ==
    UNION {{[i \in 1..n |-> ZoneRow(i, d[i], pat[i])] :
                d \in [1..n -> 0..MaxZoneDate],
                pat \in [1..n -> {"none", "all", "first"}]} : n \in 0..MaxZoneRows}

ZoneInit ==
    /\ zIn \in ZoneTables
    /\ zT \in 0..(MaxZoneDate + 1)
    /\ zSettings = CurSettings
    /\ zOut = <<>>
    /\ zPhase = "in"
    /\ zCalls = 0

\* One call of apply_zone_edges_with_backpropagation(zIn, zT).
ZoneApply ==
    /\ zPhase = "in"
    /\ \E out \in apply_zone_edges_with_backpropagation(zIn, zT, zSettings) :
          zOut' = out
    /\ zPhase' = "out"
    /\ zCalls' = zCalls + 1
    /\ UNCHANGED <<zIn, zT, zSettings, notZone>>

\* The returned table is handed to the next call (the next run's post-processing).
ZoneFeedBack ==
    /\ zPhase = "out"
    /\ zCalls < MaxZoneCalls
    /\ zIn' = zOut
    /\ zPhase' = "in"
    /\ UNCHANGED <<zT, zSettings, zOut, zCalls, notZone>>

ZoneNext == ZoneApply \/ ZoneFeedBack

InitZone == ZoneInit /\ IdleButZone

SpecZone == InitZone /\ [][ZoneNext]_vars

\* ---- what the zone-edge claims speak of ----
\* The row of the input table with the given id.
ZoneInRow(id) == zIn[CHOOSE i \in 1..Len(zIn) : zIn[i].id = id]

\* Row a of the returned table is at the least distance from T.
IsClosest(a) ==
    \A j \in 1..Len(zOut) : Abs(zOut[a].date - zT) <= Abs(zOut[j].date - zT)

CurPowerCells == OldCells(get_power_zone_edges(zSettings))

CurHrCells == OldCells(get_hr_zone_edges(zSettings))

\* Row r of the returned table holds, in every edge column, the current edge
\* where the input cell was empty and the input cell where it was set.
FilledFromInput(r) ==
    /\ \A c \in 1..Len(zOut[r].pz) :
          zOut[r].pz[c] = IF IsNa(ZoneInRow(zOut[r].id).pz[c])
                          THEN CurPowerCells[c] ELSE ZoneInRow(zOut[r].id).pz[c]
    /\ \A c \in 1..Len(zOut[r].hz) :
          zOut[r].hz[c] = IF IsNa(ZoneInRow(zOut[r].id).hz[c])
                          THEN CurHrCells[c] ELSE ZoneInRow(zOut[r].id).hz[c]

EdgesUntouched(r) ==
    /\ zOut[r].pz = ZoneInRow(zOut[r].id).pz
    /\ zOut[r].hz = ZoneInRow(zOut[r].id).hz

\* C7 (as stated): after the call on a non-empty table, a row at the least
\* distance from T holds the current right-edge in every power and HR edge
\* column, whatever the rows carried before.
C7_AnchorStamped ==
    (zPhase = "out" /\ zIn # <<>>) =>
        \E a \in 1..Len(zOut) :
            /\ IsClosest(a)
            /\ zOut[a].pz = CurPowerCells
            /\ zOut[a].hz = CurHrCells

\* C8: after the call, every row strictly older than the anchor holds in each
\* edge column the current edge if the column was empty before, and its
\* previous value if it was set.
C8_OlderRowsBackfilled ==
    (zPhase = "out" /\ zIn # <<>>) =>
        \E a \in 1..Len(zOut) :
            /\ IsClosest(a)
            /\ \A r \in 1..Len(zOut) :
                  zOut[r].date < zOut[a].date => FilledFromInput(r)

\* A call returned with an older row that had an empty column and an older
\* row (or column) that was already set.
C8_Witness ==
    /\ zPhase = "out"
    /\ \E a \in 1..Len(zOut) :
          /\ IsClosest(a)
          /\ \E r \in 1..Len(zOut) :
                /\ zOut[r].date < zOut[a].date
                /\ IsNa(ZoneInRow(zOut[r].id).pz[2])
                /\ ~IsNa(ZoneInRow(zOut[r].id).pz[1])
                /\ zOut[r].pz[2] = CurPowerCells[2]
                /\ zOut[r].pz[1] # CurPowerCells[1]

\* C9: after the call, every row newer than the anchor holds in its edge
\* columns exactly what it held before (empty stays empty).
C9_NewerRowsUntouched ==
    (zPhase = "out" /\ zIn # <<>>) =>
        \E a \in 1..Len(zOut) :
            /\ IsClosest(a)
            /\ \A r \in 1..Len(zOut) :
                  zOut[r].date > zOut[a].date => EdgesUntouched(r)

\* A call returned with a row newer than the stamped anchor whose columns
\* were and stay empty.
C9_Witness ==
    /\ zPhase = "out"
    /\ \E a \in 1..Len(zOut) :
          /\ IsClosest(a)
          /\ zOut[a].pz = CurPowerCells
          /\ \E r \in 1..Len(zOut) :
                /\ zOut[r].date > zOut[a].date
                /\ IsNa(ZoneInRow(zOut[r].id).hz[1])
                /\ IsNa(zOut[r].hz[1])

\* No two rows of the table carry the same date.
DistinctDates(df) ==
    \A i, j \in 1..Len(df) : i # j => df[i].date # df[j].date

\* The call that has just returned was given the table returned by the call
\* before it.
AppliedToOwnOutput == zPhase = "out" /\ zCalls >= 2

InitSplit == SplitInit /\ IdleButSplit

SpecSplit == InitSplit /\ [][SplitNext]_vars

\* ---- what the splitter claim speaks of ----
\* The positions of the input samples that count as moving.
MovingPositions ==
    {i \in 1..Len(sIn.rows) : ~sIn.has_moving \/ sIn.rows[i].moving}

\* C10: the moving view is exactly the input samples with moving = true, in
\* their original order, with time 0, 1, ..., n-1 and the original timestamps
\* in original_time; the raw view holds every sample with its original time.
C10_SplitViews ==
    sPhase = "out" =>
        /\ Len(sOut.moving_df) = Cardinality(MovingPositions)
        /\ {sOut.moving_df[j].k : j \in 1..Len(sOut.moving_df)} = MovingPositions
        /\ \A j \in 1..Len(sOut.moving_df) :
              /\ sOut.moving_df[j].time = j - 1
              /\ sOut.moving_df[j].original_time = sIn.rows[sOut.moving_df[j].k].time
              /\ \A h \in 1..(j - 1) : sOut.moving_df[h].k < sOut.moving_df[j].k
        /\ Len(sOut.raw_df) = Len(sIn.rows)
        /\ \A i \in 1..Len(sIn.rows) :
              /\ sOut.raw_df[i].k = i
              /\ sOut.raw_df[i].time = sIn.rows[i].time

\* A split of a stream with a stopped sample between moving ones, whose
\* moving samples do not sit at times 0, 1, ...
C10_Witness ==
    /\ sPhase = "out"
    /\ sIn.has_moving
    /\ Len(sIn.rows) = 3
    /\ sIn.rows[1].moving /\ ~sIn.rows[2].moving /\ sIn.rows[3].moving
    /\ sIn.rows[3].time = 3
    /\ Len(sOut.moving_df) = 2
    /\ sOut.moving_df[2].time = 1
    /\ sOut.moving_df[2].original_time = 3

(***************************************************************************)
(* AnalysisService._compute_per_activity_training_load                     *)
(*                                                                         *)
(* Loads are fixed-point numbers: a training stress score of 100 is held   *)
(* as 100 * Milli, a factor such as e^(-1/42) in thousandths.  Dates are   *)
(* ticks, TicksPerDay of them to a calendar day.                           *)
(***************************************************************************)
Milli == 1000

CTL_DAYS == 42

ATL_DAYS == 7

\* round(1000 * e^(-d/42)) and round(1000 * e^(-d/7)) for d = 0, 1, 2, ...
ExpNeg42 == <<1000, 976, 953, 931, 909, 888, 867, 846>>

ExpNeg7 == <<1000, 867, 751, 651, 565, 490, 424, 368>>

\* np.exp(-days / tc) in thousandths.
ExpNeg(days, tc) == IF tc = CTL_DAYS THEN ExpNeg42[days + 1] ELSE ExpNeg7[days + 1]

\* x * factor for a factor in thousandths.
Times(x, factor) == (x * factor) \div Milli

\* df[tss_column].fillna(0).values[i]
TssValue(row) == IF IsNa(row.tss) THEN 0 ELSE row.tss[1] * Milli

Max2(a, b) == IF a >= b THEN a ELSE b

TicksPerDay == 2

\* Mutation: the decay counts rows, one day per row, instead of calendar days.
DaysElapsedPerRow(prev_date, current_date) == 1

\* max((pd.Timestamp(current_date) - pd.Timestamp(prev_date)).days, 0)
DaysElapsed(prev_date, current_date) ==
    Max2((current_date - prev_date) \div TicksPerDay, 0)

\* ctl_values[1..i] (tc = 42) or atl_values[1..i] (tc = 7) of the loop over
\* the date-ascending table.
RECURSIVE LoadValues(_, _, _)
LoadValues(df, i, tc) ==
    IF i = 0 THEN <<>>
    ELSE IF i = 1 THEN <<TssValue(df[1])>>
    ELSE LET prev == LoadValues(df, i - 1, tc)
             decay == ExpNeg(DaysElapsed(df[i - 1].date, df[i].date), tc)
             weight == Milli - ExpNeg(1, tc)
         IN  Append(prev, Times(prev[i - 1], decay) + Times(TssValue(df[i]), weight))

\* np.where(ctl > 0, atl / ctl, 0.0), in thousandths.
Acwr(ctl, atl) == IF ctl > 0 THEN (atl * Milli) \div ctl ELSE 0

LoadRow(row, ctl, atl) ==
    [id |-> row.id, date |-> row.date, tss |-> row.tss,
     chronic_training_load |-> ctl,
     acute_training_load |-> atl,
     training_stress_balance |-> ctl - atl,
     acwr |-> Acwr(ctl, atl)]

\* The table without a training_stress_score column: four columns of 0.0, and
\* the rows stay in the order they came in.
ZeroLoad(rows) == [i \in 1..Len(rows) |-> LoadRow(rows[i], 0, 0)]

\* The loop over one date-ascending arrangement of the table.
WithLoad(sorted) ==
    LET ctl_values == LoadValues(sorted, Len(sorted), CTL_DAYS)
        atl_values == LoadValues(sorted, Len(sorted), ATL_DAYS)
    IN  [i \in 1..Len(sorted) |-> LoadRow(sorted[i], ctl_values[i], atl_values[i])]

\* Every table the call may return.
compute_per_activity_training_load(df) ==
    IF ~df.has_tss THEN {ZeroLoad(df.rows)}
    ELSE UNION {SortValuesDesc(WithLoad(sorted)) : sorted \in SortValuesAsc(df.rows)}

MaxFitRows == 3

MaxFitTick == 4

FitTssCells == {NaN, <<50>>, <<100>>}

FitTables ==
    UNION {{[has_tss |-> TRUE,
             rows |-> [i \in 1..n |-> [id |-> i, date |-> d[i], tss |-> t[i]]]] :
                d \in [1..n -> 0..MaxFitTick], t \in [1..n -> FitTssCells]}
           \cup
           {[has_tss |-> FALSE,
             rows |-> [i \in 1..n |-> [id |-> i, date |-> d[i], tss |-> NaN]]] :
                d \in [1..n -> 0..MaxFitTick]} : n \in 0..MaxFitRows}

FitInit ==
    /\ fIn \in FitTables
    /\ fOut = <<>>
    /\ fPhase = "in"

FitCompute ==
    /\ fPhase = "in"
    /\ \E out \in compute_per_activity_training_load(fIn) : fOut' = out
    /\ fPhase' = "out"
    /\ UNCHANGED <<fIn, notFit>>

\* The caller drops the result; the table may be processed again.
FitDiscard ==
    /\ fPhase = "out"
    /\ fOut' = <<>>
    /\ fPhase' = "in"
    /\ UNCHANGED <<fIn, notFit>>

FitNext == FitCompute \/ FitDiscard

InitFit == FitInit /\ IdleButFit

SpecFit == InitFit /\ [][FitNext]_vars

\* The training stress score of the activity in the table handed in, 0 where
\* the table holds none for it.
TssOf(id) ==
    LET r == CHOOSE k \in 1..Len(fIn.rows) : fIn.rows[k].id = id
    IN  IF fIn.has_tss /\ ~IsNa(fIn.rows[r].tss) THEN fIn.rows[r].tss[1] * Milli ELSE 0

\* The whole days between two dates, never negative.
WholeDays(d1, d2) == IF d2 <= d1 THEN 0 ELSE (d2 - d1) \div TicksPerDay

\* The rows of the returned table, taken in the order ord, obey the recurrence.
ObeysRecurrence(ord) ==
    /\ \A i, j \in 1..Len(fOut) : i < j => fOut[ord[i]].date <= fOut[ord[j]].date
    /\ \A i \in 1..Len(fOut) :
          LET cur == fOut[ord[i]]
              tss == TssOf(cur.id)
          IN  IF i = 1
              THEN /\ cur.chronic_training_load = tss
                   /\ cur.acute_training_load = tss
              ELSE LET prev == fOut[ord[i - 1]]
                       D == WholeDays(prev.date, cur.date)
                   IN  /\ cur.chronic_training_load =
                             (prev.chronic_training_load * ExpNeg42[D + 1]) \div Milli
                             + (tss * (Milli - ExpNeg42[2])) \div Milli
                       /\ cur.acute_training_load =
                             (prev.acute_training_load * ExpNeg7[D + 1]) \div Milli
                             + (tss * (Milli - ExpNeg7[2])) \div Milli

\* C5: the returned table carries, for some date-ascending traversal of the
\* activities, CTL[0] = ATL[0] = TSS[0] and for i > 0
\* CTL[i] = CTL[i-1] e^(-D/42) + TSS[i] (1 - e^(-1/42)), ATL likewise with 7,
\* D the whole days between the two dates (never negative); on every row
\* TSB = CTL - ATL and ACWR = ATL / CTL where CTL > 0, else 0.
C5_FitnessRecurrence ==
    fPhase = "out" =>
        /\ Len(fOut) = Len(fIn.rows)
        /\ \E ord \in Perms(Len(fOut)) : ObeysRecurrence(ord)
        /\ \A r \in 1..Len(fOut) :
              /\ fOut[r].training_stress_balance =
                    fOut[r].chronic_training_load - fOut[r].acute_training_load
              /\ fOut[r].acwr =
                    IF fOut[r].chronic_training_load > 0
                    THEN (fOut[r].acute_training_load * Milli)
                             \div fOut[r].chronic_training_load
                    ELSE 0

\* Three scored activities, two of them on the same day and one at least a
\* whole day later, have been given their loads.
C5_Witness ==
    /\ fPhase = "out"
    /\ fIn.has_tss
    /\ Len(fOut) = 3
    /\ \A r \in 1..3 : ~IsNa(fOut[r].tss)
    /\ \E a, b, c \in 1..3 :
          /\ a # b
          /\ WholeDays(fOut[a].date, fOut[b].date) = 0
          /\ fOut[a].date < fOut[b].date
          /\ WholeDays(fOut[b].date, fOut[c].date) >= 1
          /\ fOut[c].acute_training_load < fOut[b].acute_training_load
          /\ fOut[c].acwr > 0

(***************************************************************************)
(* ActivityAnalyzer.analyze and MetricsCalculator.compute_all_metrics:     *)
(* the names of the metrics.                                               *)
(*                                                                         *)
(* A metric name is the sequence of its words, the words being joined by   *)
(* "_" in the program: <<"raw", "average", "power">> is raw_average_power. *)
(* The prefix "raw_" is <<"raw">>, the empty prefix is <<>>.               *)
(***************************************************************************)
Key(prefix, words) == prefix \o words

\* str.startswith(prefix) for a prefix that ends in "_".
StartsWith(key, prefix) ==
    Len(key) > Len(prefix) /\ SubSeq(key, 1, Len(prefix)) = prefix

\* BaseMetricCalculator._get_prefix
get_prefix(moving_only) == IF moving_only THEN <<"moving">> ELSE <<"raw">>

MIN_DECOUPLING_DURATION == 3600

MIN_POWER_FOR_METRICS == 30

\* Settings.power_curve_intervals; the label is also what
\* interval_name_from_seconds gives for the duration.
power_curve_intervals ==
    << <<"1sec", 1>>, <<"2sec", 2>>, <<"5sec", 5>>, <<"10sec", 10>>,
       <<"15sec", 15>>, <<"20sec", 20>>, <<"30sec", 30>>, <<"1min", 60>>,
       <<"2min", 120>>, <<"5min", 300>>, <<"10min", 600>>, <<"15min", 900>>,
       <<"20min", 1200>>, <<"30min", 1800>>, <<"1hr", 3600>>, <<"90min", 5400>>,
       <<"2hr", 7200>>, <<"3hr", 10800>>, <<"4hr", 14400>>, <<"5hr", 18000>>,
       <<"6hr", 21600>> >>

\* One of the two frames the splitter hands to the calculators.  The empty
\* frame is pd.DataFrame(): it has no column at all.
View(act, rows, is_moving) ==
    [cols  |-> IF rows = <<>> THEN {}
               ELSE act.cols \cup {"time", "moving"}
                    \cup (IF is_moving THEN {"original_time"} ELSE {}),
     n     |-> Len(rows),
     watts |-> [j \in 1..Len(rows) |-> act.watts[rows[j].k]]]

\* stream_df["watts"][stream_df["watts"] > 0]
ActiveWatts(view) == SelectSeq(view.watts, LAMBDA w : w > 0)

\* PowerCalculator.calculate: the same six names on every path, the empty
\* metrics included.
PowerCalculatorKeys(view, moving_only) ==
    {Key(get_prefix(moving_only), w) :
        w \in {<<"average", "power">>, <<"max", "power">>, <<"power", "per", "kg">>,
               <<"normalized", "power">>, <<"intensity", "factor">>,
               <<"training", "stress", "score">>}}

\* AdvancedPowerCalculator.calculate
AdvancedPowerKeys(view) ==
    {<<"time", "above", "90", "ftp">>, <<"time", "sweet", "spot">>,
     <<"w", "prime", "balance", "min">>, <<"match", "burn", "count">>,
     <<"negative", "split", "index">>, <<"cardiac", "drift">>, <<"estimated", "ftp">>}

\* ClimbingCalculator.calculate
ClimbingKeys(view) ==
    {<<"vam">>, <<"climbing", "time">>, <<"climbing", "power">>,
     <<"climbing", "power", "per", "kg">>}

\* MetricsCalculator._calculate_power_curve_metrics: the names gathered once
\* the first done intervals of the settings are handled.
PowerCurveGathered(view, done) ==
    IF "watts" \notin view.cols THEN {}
    ELSE IF ActiveWatts(view) = <<>> THEN {}
    ELSE {<<"power", "curve", power_curve_intervals[i][1]>> :
             i \in {j \in 1..done :
                       /\ power_curve_intervals[j][2] > 0
                       /\ Len(ActiveWatts(view)) >= power_curve_intervals[j][2]}}

\* MetricsCalculator._calculate_power_curve_metrics when nothing raises: every
\* interval of the settings is handled.
PowerCurveKeys(view) == PowerCurveGathered(view, Len(power_curve_intervals))

\* HeartRateCalculator.calculate
HeartRateKeys(view, moving_only) ==
    {Key(get_prefix(moving_only), w) :
        w \in {<<"average", "hr">>, <<"max", "hr">>, <<"hr", "training", "stress">>}}

\* EfficiencyCalculator.calculate
EfficiencyKeys(view, moving_only) ==
    {Key(get_prefix(moving_only), w) :
        w \in {<<"efficiency", "factor">>, <<"power", "hr", "decoupling">>,
               <<"first", "half", "ef">>, <<"second", "half", "ef">>,
               <<"variability", "index">>}}

\* PaceCalculator.calculate
PaceKeys(view, moving_only) ==
    {Key(get_prefix(moving_only), w) :
        w \in {<<"average", "speed">>, <<"max", "speed">>,
               <<"normalized", "graded", "pace">>}}

\* BasicMetricsCalculator.calculate
BasicCalculatorKeys(view, moving_only) ==
    {Key(get_prefix(moving_only), w) :
        w \in {<<"average", "cadence">>, <<"max", "cadence">>,
               <<"average", "speed">>, <<"max", "speed">>}}

ZoneLabels == <<"z1", "z2", "z3", "z4", "z5", "z6", "z7">>

\* ZoneCalculator.calculate: "power_zone_3" of the settings becomes
\* power_z3_percentage; a zone table of an empty series is empty.
ZoneKeys(view, settings) ==
    (IF "watts" \in view.cols /\ settings.ftp > 0 /\ view.n > 0
     THEN {<<"power", ZoneLabels[i], "percentage">> : i \in 1..Len(settings.power_zones)}
     ELSE {})
    \cup
    (IF "heartrate" \in view.cols /\ settings.fthr > 0 /\ view.n > 0
     THEN {<<"hr", ZoneLabels[i], "percentage">> : i \in 1..Len(settings.hr_zone_ranges)}
     ELSE {})

TidNames(kind) ==
    {<<kind, "tid", "z1", "percentage">>, <<kind, "tid", "z2", "percentage">>,
     <<kind, "tid", "z3", "percentage">>, <<kind, "polarization", "index">>,
     <<kind, "tdr">>}

\* TIDCalculator.calculate
TidKeys(view, settings) ==
    (IF "watts" \in view.cols /\ settings.ftp > 0 /\ view.n > 0
     THEN TidNames("power") ELSE {})
    \cup
    (IF "heartrate" \in view.cols /\ settings.fthr > 0 /\ view.n > 0
     THEN TidNames("hr") ELSE {})

\* MetricsCalculator._calculate_tid_classification
TidClassificationKeys(tid_metrics) ==
    (IF {<<"power", "tid", "z1", "percentage">>, <<"power", "tid", "z2", "percentage">>,
         <<"power", "tid", "z3", "percentage">>} \subseteq tid_metrics
     THEN {<<"power", "tid", "classification">>} ELSE {})
    \cup
    (IF {<<"hr", "tid", "z1", "percentage">>, <<"hr", "tid", "z2", "percentage">>,
         <<"hr", "tid", "z3", "percentage">>} \subseteq tid_metrics
     THEN {<<"hr", "tid", "classification">>} ELSE {})

\* The time-weighted mean power of each half of the frame is not 0.
HalvesHavePower(view) ==
    LET midpoint == view.n \div 2 IN
    /\ \E j \in 1..midpoint : view.watts[j] # 0
    /\ \E j \in (midpoint + 1)..view.n : view.watts[j] # 0

\* FatigueCalculator.calculate
FatigueKeys(view) ==
    IF "watts" \notin view.cols \/ view.n = 0 THEN {}
    ELSE IF view.n < MIN_DECOUPLING_DURATION THEN {}
    ELSE (IF view.n >= 120 /\ HalvesHavePower(view)
          THEN {<<"fatigue", "index">>, <<"initial", "5min", "power">>,
                <<"final", "5min", "power">>,
                <<"first", "half", "power">>, <<"second", "half", "power">>,
                <<"power", "drift">>, <<"half", "power", "ratio">>}
          ELSE {})
         \cup
         (IF Len(ActiveWatts(view)) >= MIN_POWER_FOR_METRICS
          THEN {<<"power", "coefficient", "variation">>,
                <<"power", "sustainability", "index">>}
          ELSE {})

\* FatigueCalculator.calculate_interval_fatigue(stream_df, 300)
IntervalFatigueKeys(view) ==
    IF "watts" \notin view.cols \/ view.n = 0 THEN {}
    ELSE LET n_intervals == view.n \div 300
             withPower == {i \in 0..(n_intervals - 1) :
                              \E j \in (i * 300 + 1)..(i * 300 + 300) : view.watts[j] > 0}
         IN  IF n_intervals < 2 \/ Cardinality(withPower) < 2 THEN {}
             ELSE {<<"interval", "300s", "decay", "rate">>,
                   <<"interval", "300s", "power", "trend">>,
                   <<"interval", "300s", "first", "power">>,
                   <<"interval", "300s", "last", "power">>}

\* MetricsCalculator._calculate_basic_metrics: the four names on every path.
BasicTemporalKeys(view) ==
    {<<"total", "time">>, <<"moving", "time">>, <<"distance">>, <<"elevation", "gain">>}

\* MetricsCalculator.compute_all_metrics(stream_df, activity_type,
\* include_power_curve=True): the keys of the dictionary returned.  Every
\* calculator is called with its default moving_only=False.
compute_all_metrics(view, activity_type, settings) ==
    LET is_cycling == activity_type \in {"ride", "virtualride", "virtual_ride"}
        is_running == activity_type = "run"
        tid_metrics == TidKeys(view, settings)
    IN  (IF is_cycling
         THEN PowerCalculatorKeys(view, FALSE) \cup AdvancedPowerKeys(view)
              \cup ClimbingKeys(view) \cup PowerCurveKeys(view)
         ELSE {})
        \cup HeartRateKeys(view, FALSE)
        \cup EfficiencyKeys(view, FALSE)
        \cup (IF is_running THEN PaceKeys(view, FALSE) ELSE {})
        \cup BasicCalculatorKeys(view, FALSE)
        \cup ZoneKeys(view, settings)
        \cup tid_metrics
        \cup TidClassificationKeys(tid_metrics)
        \cup FatigueKeys(view)
        \cup (IF is_cycling THEN IntervalFatigueKeys(view) ELSE {})
        \cup BasicTemporalKeys(view)

\* The values of the ActivityType enumeration.
ActivityTypeValues == {"Ride", "VirtualRide", "Run", "Walk"}

\* str.lower on the values of the enumeration.
Lower(type) ==
    CASE type = "Ride" -> "ride"
      [] type = "VirtualRide" -> "virtualride"
      [] type = "Run" -> "run"
      [] type = "Walk" -> "walk"

\* ActivityAnalyzer.analyze
analyze(act, settings) ==
    IF act.type \notin ActivityTypeValues
    THEN [error |-> "ProcessingError"]
    ELSE IF act.type \notin {"Ride", "VirtualRide", "Run"}
    THEN [error |-> "ActivityTypeError"]
    ELSE LET split_result == split(act.stream) IN
         [error |-> "none",
          raw_metrics |->
              compute_all_metrics(View(act, split_result.raw_df, FALSE),
                                  Lower(act.type), settings),
          moving_metrics |->
              compute_all_metrics(View(act, split_result.moving_df, TRUE),
                                  Lower(act.type), settings),
          activity_type |-> act.type]

MaxAnaSamples == 2

AnaColumns == {"watts", "heartrate", "altitude", "cadence"}

AnaWatts == {0, 200}

\* Activity rows with their processed stream: one sample a second, the
\* moving column present, the optional columns any subset of AnaColumns.
AnaActivities ==
    UNION {{[type |-> ty, cols |-> cs,
             stream |-> [has_moving |-> TRUE,
                         rows |-> [i \in 1..n |->
                                      [time |-> i - 1, moving |-> mv[i], k |-> i]]],
             watts |-> w] :
                ty \in ActivityTypeValues \cup {"Swim"},
                cs \in SUBSET AnaColumns,
                mv \in [1..n -> BOOLEAN],
                w \in [1..n -> AnaWatts]} : n \in 0..MaxAnaSamples}

AnaInit ==
    /\ aIn \in AnaActivities
    /\ aOut = <<>>
    /\ aPhase = "in"

AnaAnalyze ==
    /\ aPhase = "in"
    /\ aOut' = analyze(aIn, OldSettings)
    /\ aPhase' = "out"
    /\ UNCHANGED <<aIn, notAna>>

\* The caller drops the result; the activity may be analysed again.
AnaDiscard ==
    /\ aPhase = "out"
    /\ aOut' = <<>>
    /\ aPhase' = "in"
    /\ UNCHANGED <<aIn, notAna>>

AnaNext == AnaAnalyze \/ AnaDiscard

InitAna == AnaInit /\ IdleButAna

SpecAna == InitAna /\ [][AnaNext]_vars

\* A cycling activity whose stream carries power.
CyclingWithPower(act) ==
    /\ act.type \in {"Ride", "VirtualRide"}
    /\ "watts" \in act.cols
    /\ \E i \in 1..Len(act.stream.rows) : act.stream.rows[i].moving /\ act.watts[i] > 0

\* C6: in the result of analyze no key of raw_metrics or moving_metrics
\* starts with raw_ or moving_, and for a cycling activity with power both
\* dictionaries hold average_power, normalized_power, intensity_factor and
\* training_stress_score.
C6_UnprefixedKeys ==
    (aPhase = "out" /\ aOut.error = "none") =>
        /\ \A key \in aOut.raw_metrics \cup aOut.moving_metrics :
              ~StartsWith(key, <<"raw">>) /\ ~StartsWith(key, <<"moving">>)
        /\ CyclingWithPower(aIn) =>
              {<<"average", "power">>, <<"normalized", "power">>,
               <<"intensity", "factor">>, <<"training", "stress", "score">>}
                  \subseteq (aOut.raw_metrics \cap aOut.moving_metrics)

(***************************************************************************)
(* The pipeline: the run, summarize and process commands,                *)
(* AnalysisService.run_analysis and AnalysisService.save_results over the  *)
(* files of processed_data_dir.                                            *)
(*                                                                         *)
(* A file is [exists, rows]; a DataFrame that may be None is [some, rows]. *)
(* A row of an enriched table keeps the id, type and date of the activity, *)
(* the kind of its start_date cell (a Timestamp or text), whether it has   *)
(* power_curve_ columns and an efficiency factor the summarizer takes, its *)
(* zone-edge columns and its training-load columns; the other metric       *)
(* columns are not kept.  A file with no row is the file an empty          *)
(* DataFrame or an interrupted write leaves: pd.read_csv raises on it.     *)
(***************************************************************************)
NoFile == [exists |-> FALSE, rows |-> <<>>]

FileOf(rows) == [exists |-> TRUE, rows |-> rows]

None == [some |-> FALSE, rows |-> <<>>]

Frame(rows) == [some |-> TRUE, rows |-> rows]

RawFile == "activities_raw.csv"

MovingFile == "activities_moving.csv"

SummaryFile == "activity_summary.json"

EnrichedFile == "activities_enriched.csv"

FileNames == {RawFile, MovingFile, SummaryFile, EnrichedFile}

Ids(rows) == {rows[i].id : i \in 1..Len(rows)}

\* ActivityRepository.get_supported_activities
get_supported_activities(acts) ==
    SelectSeq(acts, LAMBDA a : a.type \in {"Ride", "VirtualRide", "Run"})

\* ActivityDataLoader.load_enriched_activities: None when the file named by
\* settings.activities_enriched_file is missing or cannot be read.
load_enriched_activities(files, settings) ==
    LET f == files[settings.activities_enriched_file] IN
    IF ~f.exists \/ f.rows = <<>> THEN None ELSE Frame(f.rows)

\* ActivityRepository.get_activities_needing_processing
get_activities_needing_processing(acts, files, settings) ==
    LET supported == get_supported_activities(acts)
        enriched_activities == load_enriched_activities(files, settings)
    IN  IF ~enriched_activities.some THEN supported
        ELSE SelectSeq(supported, LAMBDA a : a.id \notin Ids(enriched_activities.rows))

\* The stream files that can be loaded and analysed: "ok" is a stream with
\* watts (thirty positive samples or more) and heartrate whose efficiency
\* factor, normalized power over mean heart rate, is below 10; "bare" one
\* with neither column.
Analysable == {"ok", "bare"}

\* The row built from activity_row and the metrics of one view ("raw" or
\* "moving"): no zone edge and no training load yet.  start_date is the
\* Timestamp that load_activities parsed; curve tells whether the metrics
\* have power_curve_ names (a ride with positive watts), ef whether
\* raw_efficiency_factor is above 0 and below 10, the values that
\* calculate_rolling_ef keeps.
EnrichedRow(a, view, stream) ==
    [id |-> a.id, type |-> a.type, date |-> a.date, view |-> view,
     start_date |-> "Timestamp",
     curve |-> stream = "ok" /\ a.type \in {"Ride", "VirtualRide"},
     ef |-> stream = "ok",
     pz |-> EmptyCells(Len(get_power_zone_edges(CurSettings))),
     hz |-> EmptyCells(Len(get_hr_zone_edges(CurSettings))),
     load |-> NaN]

\* The start_date column of a table: text in a CSV file and in a table read
\* without parse_dates, Timestamps in a table read with
\* parse_dates=["start_date"].
WithStartDate(rows, kind) ==
    [i \in 1..Len(rows) |->
        IF "start_date" \in DOMAIN rows[i]
        THEN [rows[i] EXCEPT !.start_date = kind] ELSE rows[i]]

\* DataFrame.to_csv
to_csv(rows) == WithStartDate(rows, "str")

\* pd.read_csv(file, sep=...)
read_csv(rows) == WithStartDate(rows, "str")

\* pd.read_csv(file, parse_dates=["start_date"], sep=...)
read_csv_parse_dates(rows) == WithStartDate(rows, "Timestamp")

\* Mutation: the loop of _process_activities stops at the first activity
\* that fails.
ContinueAbort(rest) == <<>>

\* The continue of lines 224 and 249: the activities after a failed one are
\* still processed.
Continue(rest) == rest

\* The loop of AnalysisService._process_activities: the activities that
\* reach the two append calls, in order.  An activity without a stream file
\* ("missing") is skipped, one whose processing raises ("bad") is logged.
RECURSIVE Processed(_, _)
Processed(acts, streams) ==
    IF acts = <<>> THEN <<>>
    ELSE IF streams[Head(acts).id] \notin Analysable
    THEN Processed(Continue(Tail(acts)), streams)
    ELSE <<Head(acts)>> \o Processed(Tail(acts), streams)

\* AnalysisService._process_activities: raw_df and moving_df.
process_activities(acts, streams) ==
    LET done == Processed(acts, streams) IN
    [raw_df |-> [i \in 1..Len(done) |-> EnrichedRow(done[i], "raw", streams[done[i].id])],
     moving_df |-> [i \in 1..Len(done) |->
                       EnrichedRow(done[i], "moving", streams[done[i].id])]]

\* pd.concat([existing, new], ignore_index=True); a None in the list is dropped.
Concat(existing, new_rows) ==
    IF existing.some THEN Frame(existing.rows \o new_rows) ELSE Frame(new_rows)

\* datetime.now() of the run: later than every activity.
MaxPipeDate == 2

Now == MaxPipeDate + 1

\* AnalysisService._apply_post_processing: the frames the call may return.
\* The sort of line 156 compares the text of start_date_local: the text of
\* activities.csv in a new row, and in a row read back the text to_csv wrote
\* ("2024-01-15 09:30:00+00:00").  Where activities.csv writes its dates in
\* the ISO form ("2024-01-15T09:30:00Z", iso), of two rows of the same
\* instant the new one comes first, "T" being above " "; where it writes
\* them as to_csv does the two texts are equal and the rows keep their
\* order, as two new rows and two rows read back always do.  (The dates of
\* the model are the same instant or lie on different days.)  The sort of
\* zone_edges.py:122 then keeps what it finds.
apply_post_processing(df, settings) ==
    LET ReadBack(row) == row.start_date = "str"
        Before(tab, a, b, iso) ==
            \/ tab[a].date > tab[b].date
            \/ /\ tab[a].date = tab[b].date
               /\ IF iso /\ ReadBack(tab[a]) # ReadBack(tab[b])
                  THEN ReadBack(tab[b])
                  ELSE a < b
        SortTextDesc(tab, iso) ==
            {[i \in 1..Len(tab) |-> tab[q[i]]] : q \in
                {p \in Perms(Len(tab)) :
                    \A i, j \in 1..Len(tab) : i < j => Before(tab, p[i], p[j], iso)}}
    IN
    IF ~df.some \/ df.rows = <<>> THEN {df}
    ELSE UNION {{Frame(out) :
                    out \in apply_zone_edges_with_backpropagation(sorted, Now, settings)} :
                sorted \in UNION {SortTextDesc(df.rows, iso) : iso \in BOOLEAN}}

\* ActivitySummarizer.generate_summary without filters: what it raises, or
\* the summary.  A table without columns has no start_date (KeyError);
\* min() of a start_date column that holds both text and Timestamps raises
\* TypeError; rolling("28D") over an index of text, reached when a row has
\* an efficiency factor above 0 and below 10, raises ValueError.
generate_summary(rows) ==
    LET kinds == {rows[i].start_date :
                     i \in {j \in 1..Len(rows) : "start_date" \in DOMAIN rows[j]}}
        with_ef == \E i \in 1..Len(rows) : "ef" \in DOMAIN rows[i] /\ rows[i].ef
        raised == IF rows = <<>> THEN "KeyError"
                  ELSE IF kinds = {"str", "Timestamp"} THEN "TypeError"
                  ELSE IF kinds = {"str"} /\ with_ef THEN "ValueError"
                  ELSE "none"
    IN  [raised |-> raised,
         summary |-> [total_activities |-> IF raised = "none" THEN Len(rows) ELSE 0]]

\* ActivitySummarizer.summarize: logs and raises again what generate_summary
\* raises.
summarize(raw_df) == generate_summary(raw_df.rows)

\* power_curve_cols is not empty: some row came with power_curve_ names.
HasPowerCurve(rows) ==
    \E i \in 1..Len(rows) : "curve" \in DOMAIN rows[i] /\ rows[i].curve

\* AnalysisService._prepare_df_for_export: what it raises, or the table it
\* returns.  The table has no training_stress_score column (the analyzer
\* names it raw_training_stress_score), so the training load is the four
\* columns of 0.  With a power_curve_ column _compute_per_activity_cp_model
\* goes on to read TrainingLoadWindows.CP_WINDOW_DAYS, which the class does
\* not have: AttributeError.  Without one it adds four columns of NaN.
prepare_df_for_export(df) ==
    IF ~df.some \/ df.rows = <<>> THEN [raised |-> "none", df |-> df]
    ELSE LET loads == ZeroLoad([i \in 1..Len(df.rows) |->
                                   [id |-> df.rows[i].id, date |-> df.rows[i].date,
                                    tss |-> NaN]])
             with_load == [i \in 1..Len(df.rows) |->
                              [df.rows[i] EXCEPT !.load =
                                  <<[chronic_training_load |-> loads[i].chronic_training_load,
                                     acute_training_load |-> loads[i].acute_training_load,
                                     training_stress_balance |->
                                         loads[i].training_stress_balance,
                                     acwr |-> loads[i].acwr]>>]]
         IN  IF HasPowerCurve(with_load)
             THEN [raised |-> "AttributeError", df |-> None]
             ELSE [raised |-> "none", df |-> Frame(with_load)]

NoResult == [raw_df |-> None, moving_df |-> None, summary |-> [total_activities |-> 0]]

NoRows == [raw_df |-> <<>>, moving_df |-> <<>>]

Failed(stage, to_process, new) ==
    [ok |-> FALSE, stage |-> stage, pending |-> to_process, new |-> new,
     result |-> NoResult]

\* AnalysisService.run_analysis on the files it finds: every way the call may
\* end.  stage tells how far a failed call came.
run_analysis(acts, streams, files, settings) ==
    LET raw_file == files[RawFile]
        moving_file == files[MovingFile]
    IN
    IF (raw_file.exists /\ raw_file.rows = <<>>)
           \/ (moving_file.exists /\ moving_file.rows = <<>>)
    THEN {Failed("load", <<>>, NoRows)}
    ELSE
    LET raw_df == IF raw_file.exists THEN Frame(read_csv(raw_file.rows)) ELSE None
        moving_df == IF moving_file.exists THEN Frame(read_csv(moving_file.rows)) ELSE None
        to_process == get_activities_needing_processing(acts, files, settings)
        new == IF to_process = <<>> THEN NoRows
               ELSE process_activities(to_process, streams)
        merged_raw == IF to_process = <<>> THEN raw_df
                      ELSE IF raw_df.some THEN Concat(raw_df, new.raw_df)
                      ELSE Frame(new.raw_df)
        merged_moving == IF to_process = <<>> THEN moving_df
                         ELSE IF raw_df.some THEN Concat(moving_df, new.moving_df)
                         ELSE Frame(new.moving_df)
    IN
    IF to_process = <<>> /\ ~raw_df.some
    THEN {Failed("nothing", to_process, new)}
    ELSE {IF summarize(r).raised # "none"
          THEN Failed("summary", to_process, new)
          ELSE [ok |-> TRUE, stage |-> "done", pending |-> to_process, new |-> new,
                result |-> [raw_df |-> r, moving_df |-> m,
                            summary |-> summarize(r).summary]] :
              r \in apply_post_processing(merged_raw, settings.zones),
              m \in apply_post_processing(merged_moving, settings.zones)}

MaxActs == 2

MaxRuns == 2

StreamStates == Analysable \cup {"missing", "bad"}

\* Two supported types and one unsupported.  (The row of a VirtualRide
\* differs from the row of a Ride in its type alone; a Run has no power
\* curve.)
PipeTypes == {"Ride", "Run", "Walk"}

\* The stream files an activity may have.  The stream of an activity of an
\* unsupported type is never read, so it is left out.  A run whose stream is
\* absent, unreadable or without power goes through every step as a ride of
\* that kind, so the run kept is the one that differs: with power and heart
\* rate its row has an efficiency factor and no power curve.
StreamStatesOf(type) ==
    IF type \in {"Ride", "VirtualRide"} THEN StreamStates
    ELSE IF type = "Run" THEN {"ok"}
    ELSE {"missing"}

\* The contents of activities.csv; two activities may start at the same time.
PipeActs ==
    UNION {{[i \in 1..n |-> [id |-> i, type |-> ty[i], date |-> d[i]]] :
                ty \in [1..n -> PipeTypes],
                d \in [1..n -> 1..MaxPipeDate]} :
           n \in 0..MaxActs}

\* A table left by an earlier version of the program in activities_enriched.csv.
LegacyTable(ids, acts) ==
    LET n == Cardinality(ids)
        f == CHOOSE g \in [1..n -> ids] : \A i, j \in 1..n : i < j => g[i] < g[j]
    IN  [i \in 1..n |-> [id |-> f[i], date |-> acts[f[i]].date, start_date |-> "str"]]

NoRun ==
    [acts |-> <<>>, streams |-> <<>>, before |-> [n \in FileNames |-> NoFile],
     ok |-> FALSE, stage |-> "none", pending |-> <<>>, new |-> NoRows]

PipeInit ==
    /\ pActs \in PipeActs
    /\ pStreams \in {s \in [1..Len(pActs) -> StreamStates] :
                        \A i \in 1..Len(pActs) : s[i] \in StreamStatesOf(pActs[i].type)}
    /\ \E ef \in {EnrichedFile, RawFile} :
          pSettings = [activities_enriched_file |-> ef, zones |-> CurSettings]
    /\ \E ids \in SUBSET (1..Len(pActs)) :
          /\ pSettings.activities_enriched_file = RawFile => ids = {}
          /\ pFiles = [n \in FileNames |->
                          IF n = EnrichedFile /\ ids # {}
                          THEN FileOf(LegacyTable(ids, pActs)) ELSE NoFile]
    /\ pc = "idle"
    /\ pResult = NoResult
    /\ pRun = NoRun
    /\ pHist = <<>>

\* The run as it enters the history, with the files it leaves: ok tells
\* whether run_analysis and save_results returned.  The command itself ends
\* in click.Abort either way: when they raise, and when they return, for
\* len(result_df) of the DualAnalysisResult raises TypeError.
Finished(run, ok, stage, files) ==
    [run EXCEPT !.ok = ok, !.stage = stage] @@ [after |-> files, exit_code |-> 1]

\* The run command up to the return of run_analysis: with --force the file
\* named by settings.activities_enriched_file is unlinked first.  A failed
\* run_analysis ends the command.  The process command is the run command:
\* the Abort that ends run keeps it from its summarize step.
RunAnalysis ==
    /\ pc = "idle"
    /\ Len(pHist) < MaxRuns
    /\ \E force \in BOOLEAN :
          LET files == IF force
                       THEN [pFiles EXCEPT ![pSettings.activities_enriched_file] = NoFile]
                       ELSE pFiles
          IN  \E out \in run_analysis(pActs, pStreams, files, pSettings) :
                 LET run == [acts |-> pActs, streams |-> pStreams, before |-> files,
                             ok |-> out.ok, stage |-> out.stage,
                             pending |-> out.pending, new |-> out.new]
                 IN  /\ pFiles' = files
                     /\ IF out.ok
                        THEN /\ pc' = "analysed"
                             /\ pResult' = out.result
                             /\ pRun' = run
                             /\ pHist' = pHist
                        ELSE /\ pc' = "idle"
                             /\ pResult' = NoResult
                             /\ pRun' = NoRun
                             /\ pHist' = Append(pHist, Finished(run, FALSE, out.stage, files))
    /\ UNCHANGED <<pActs, pStreams, pSettings, notPipe>>

\* A write that fails leaves the file as it was, or cut short.
FailedWrite(name) == {pFiles[name], FileOf(<<>>)}

\* save_results ends with an exception, raised at the stage named: the run
\* is over.
SaveFails(files, stage) ==
    /\ pFiles' = files
    /\ pc' = "idle"
    /\ pResult' = NoResult
    /\ pRun' = NoRun
    /\ pHist' = Append(pHist, Finished(pRun, FALSE, stage, files))

\* save_results, first write: activities_raw.csv, unless the preparation of
\* the raw table raises.
SaveRaw ==
    /\ pc = "analysed"
    /\ LET raw_export == prepare_df_for_export(pResult.raw_df) IN
       \/ /\ raw_export.raised = "none"
          /\ pFiles' = [pFiles EXCEPT ![RawFile] = FileOf(to_csv(raw_export.df.rows))]
          /\ pc' = "raw_saved"
          /\ UNCHANGED <<pResult, pRun, pHist>>
       \/ /\ raw_export.raised = "none"
          /\ \E left \in FailedWrite(RawFile) :
                SaveFails([pFiles EXCEPT ![RawFile] = left], "save")
       \/ /\ raw_export.raised # "none"
          /\ SaveFails(pFiles, "export")
    /\ UNCHANGED <<pActs, pStreams, pSettings, notPipe>>

\* save_results, second write: activities_moving.csv.  Without a moving
\* DataFrame (None) the call of to_csv raises, as does the preparation of a
\* moving table with a power_curve_ column.
SaveMoving ==
    /\ pc = "raw_saved"
    /\ LET moving_export == prepare_df_for_export(pResult.moving_df)
           prepared == pResult.moving_df.some /\ moving_export.raised = "none"
       IN
       \/ /\ prepared
          /\ pFiles' = [pFiles EXCEPT ![MovingFile] =
                                          FileOf(to_csv(moving_export.df.rows))]
          /\ pc' = "moving_saved"
          /\ UNCHANGED <<pResult, pRun, pHist>>
       \/ /\ prepared
          /\ \E left \in FailedWrite(MovingFile) :
                SaveFails([pFiles EXCEPT ![MovingFile] = left], "save")
       \/ /\ ~prepared
          /\ SaveFails(pFiles, "export")
    /\ UNCHANGED <<pActs, pStreams, pSettings, notPipe>>

\* save_results, third write: activity_summary.json.  Nothing is written
\* after it: the command logs the TypeError of len(result_df) and aborts.
SaveSummary ==
    /\ pc = "moving_saved"
    /\ \/ LET files == [pFiles EXCEPT ![SummaryFile] = FileOf(<<pResult.summary>>)]
          IN  /\ pFiles' = files
              /\ pc' = "idle"
              /\ pResult' = NoResult
              /\ pRun' = NoRun
              /\ pHist' = Append(pHist, Finished(pRun, TRUE, "done", files))
       \/ \E left \in FailedWrite(SummaryFile) :
             SaveFails([pFiles EXCEPT ![SummaryFile] = left], "save")
    /\ UNCHANGED <<pActs, pStreams, pSettings, notPipe>>

\* An option or argument that is None; one that is given is <<x>>.
PyNone == <<>>

\* activities_df[activities_df["start_date"] >= from_date] and likewise
\* to_date, each when the option is given: what it raises, or the rows of
\* the range.  The dates of the options carry no time zone; when those of
\* the table carry one (utc, as in "2024-01-15T08:30:00Z") the comparison
\* raises TypeError.
InDateRange(rows, from_date, to_date, utc) ==
    IF utc /\ (from_date # PyNone \/ to_date # PyNone)
    THEN [raised |-> "TypeError", rows |-> <<>>]
    ELSE [raised |-> "none",
          rows |-> SelectSeq(rows, LAMBDA row :
                       /\ from_date # PyNone => row.date >= from_date[1]
                       /\ to_date # PyNone => row.date <= to_date[1])]

\* The summarize command: it reads the table of
\* settings.activities_enriched_file with parse_dates=["start_date"], keeps
\* the rows of the date range and writes their summary to
\* activity_summary.json (generate_summary applies the same range again).
\* Without the file, with a file cut short, or when the range or the
\* summary raises, the command aborts; with no row in the range it returns.
\* The options tried are those that leave a date out: --from-date the last
\* date, --to-date the first.
\* (training_zones_summary.csv, which it writes as well, is read by no
\* other command.)
Summarize ==
    /\ pc = "idle"
    /\ Len(pHist) < MaxRuns
    /\ \E from_date \in {PyNone, <<MaxPipeDate>>}, to_date \in {PyNone, <<1>>},
          utc \in BOOLEAN :
          LET f == pFiles[pSettings.activities_enriched_file]
              activities_df == InDateRange(read_csv_parse_dates(f.rows),
                                           from_date, to_date, utc)
              out == generate_summary(activities_df.rows)
              written == f.exists /\ activities_df.raised = "none" /\ out.raised = "none"
          IN  \/ /\ written
                 /\ pFiles' = [pFiles EXCEPT ![SummaryFile] = FileOf(<<out.summary>>)]
              \/ /\ written
                 /\ \E left \in FailedWrite(SummaryFile) :
                       pFiles' = [pFiles EXCEPT ![SummaryFile] = left]
              \/ /\ ~written
                 /\ pFiles' = pFiles
    /\ UNCHANGED <<pActs, pStreams, pSettings, pc, pResult, pRun, pHist, notPipe>>

\* Between two runs a stream file appears, disappears or is replaced.
StreamChange ==
    /\ pc = "idle"
    /\ Len(pHist) < MaxRuns
    /\ \E id \in DOMAIN pStreams, st \in StreamStates :
          /\ st \in StreamStatesOf(pActs[id].type)
          /\ st # pStreams[id]
          /\ pStreams' = [pStreams EXCEPT ![id] = st]
    /\ UNCHANGED <<pActs, pSettings, pFiles, pc, pResult, pRun, pHist, notPipe>>

\* Between two runs a new activity is appended to activities.csv.
SyncActivity ==
    /\ pc = "idle"
    /\ Len(pHist) < MaxRuns
    /\ Len(pActs) < MaxActs
    /\ \E ty \in PipeTypes, d \in 1..MaxPipeDate, st \in StreamStates :
          /\ st \in StreamStatesOf(ty)
          /\ pActs' = Append(pActs, [id |-> Len(pActs) + 1, type |-> ty, date |-> d])
          /\ pStreams' = Append(pStreams, st)
    /\ UNCHANGED <<pSettings, pFiles, pc, pResult, pRun, pHist, notPipe>>

PipeNext ==
    \/ RunAnalysis
    \/ SaveRaw
    \/ SaveMoving
    \/ SaveSummary
    \/ Summarize
    \/ StreamChange
    \/ SyncActivity

InitPipe == PipeInit /\ IdleButPipe

SpecPipe == InitPipe /\ [][PipeNext]_vars

\* The runs that have computed their pending set: the finished ones and the
\* one in progress.
RunsWithPending ==
    {pHist[i] : i \in {j \in 1..Len(pHist) : pHist[j].stage # "load"}}
    \cup (IF pc \in {"analysed", "raw_saved", "moving_saved"} THEN {pRun} ELSE {})

\* The supported activities of the run whose id is not in the raw table the
\* run found.
UnprocessedIds(run) ==
    {run.acts[i].id : i \in {j \in 1..Len(run.acts) :
        /\ run.acts[j].type \in {"Ride", "VirtualRide", "Run"}
        /\ run.acts[j].id \notin Ids(run.before[RawFile].rows)}}

\* C1: the pending set of a run is exactly the supported activities whose id
\* is not in the persisted raw table, so an activity written to
\* activities_raw.csv is never pending in a later run.
C1_PendingIsUnprocessed ==
    /\ \A run \in RunsWithPending : Ids(run.pending) = UnprocessedIds(run)
    /\ \A i, j \in 1..Len(pHist) :
          (i < j /\ pHist[j].stage # "load" /\ pHist[j].before = pHist[i].after) =>
              Ids(pHist[j].pending) \cap Ids(pHist[i].after[RawFile].rows) = {}

\* C2: when the pipeline has run well and runs a second time over the same
\* activities, streams and settings and the files the first run left, the
\* second run ends well too and the raw and the moving file after it are
\* those after the first (no write of the second run failing).
C2_SecondRunIdentical ==
    \A i \in 1..(Len(pHist) - 1) :
        LET first == pHist[i]
            second == pHist[i + 1]
        IN  (/\ first.ok
             /\ second.stage # "save"
             /\ second.acts = first.acts
             /\ second.streams = first.streams
             /\ second.before = first.after) =>
                /\ second.ok
                /\ second.after[RawFile] = first.after[RawFile]
                /\ second.after[MovingFile] = first.after[MovingFile]

CountId(rows, id) == Cardinality({i \in 1..Len(rows) : rows[i].id = id})

\* C3: in every run that processes activities, each pending activity whose
\* processing succeeds has exactly one row in the new raw table and exactly
\* one in the new moving table, whatever happened to the other pending
\* activities.
C3_ErrorsIsolated ==
    \A run \in RunsWithPending :
        \A k \in 1..Len(run.pending) :
            run.streams[run.pending[k].id] \in Analysable =>
                /\ CountId(run.new.raw_df, run.pending[k].id) = 1
                /\ CountId(run.new.moving_df, run.pending[k].id) = 1

\* A run has gone past an activity whose processing raised and has then
\* processed the next one.
C3_Witness ==
    \E run \in RunsWithPending :
        /\ Len(run.pending) = 2
        /\ run.streams[run.pending[1].id] = "bad"
        /\ run.streams[run.pending[2].id] = "ok"
        /\ CountId(run.new.raw_df, run.pending[1].id) = 0
        /\ CountId(run.new.raw_df, run.pending[2].id) = 1
        /\ CountId(run.new.moving_df, run.pending[2].id) = 1

\* C4: after a run that ended with a fatal failure the three output files
\* hold what they held before the run.
C4_FailureLeavesFiles ==
    \A i \in 1..Len(pHist) :
        ~pHist[i].ok =>
            \A n \in {RawFile, MovingFile, SummaryFile} :
                pHist[i].after[n] = pHist[i].before[n]

\* C28: after every run that ended well, each activity id has as many rows
\* in activities_raw.csv as in activities_moving.csv, whichever of the two
\* files the run found.
C28_SameIdsInBothTables ==
    \A i \in 1..Len(pHist) :
        pHist[i].ok =>
            \A id \in 1..MaxActs :
                CountId(pHist[i].after[RawFile].rows, id)
                    = CountId(pHist[i].after[MovingFile].rows, id)

(***************************************************************************)
(* StreamDataProcessor (data/processor.py)                                 *)
(*                                                                         *)
(* A raw stream: [cols, rows]; cols is the set of columns of the csv file, *)
(* a row is [time, moving, velocity_smooth], each a cell, empty where the  *)
(* column is absent.  Times are whole seconds, velocities tenths of m/s.   *)
(***************************************************************************)
GAP_DETECTION_THRESHOLD == 2

\* the 0.5 m/s of the velocity fallback, in tenths of m/s
VelocityThreshold == 5

\* Settings.stream_essential_columns
stream_essential_columns == <<"time", "moving">>

\* series.ffill(): the last filled cell at or before i, if any
RECURSIVE Ffill(_, _)
Ffill(col, i) ==
    IF i = 0 THEN NaN
    ELSE IF ~IsNa(col[i]) THEN col[i]
    ELSE Ffill(col, i - 1)

\* series.bfill(): the first filled cell at or after i, if any
RECURSIVE Bfill(_, _)
Bfill(col, i) ==
    IF i > Len(col) THEN NaN
    ELSE IF ~IsNa(col[i]) THEN col[i]
    ELSE Bfill(col, i + 1)

\* series.ffill().bfill().fillna(0)
FillBothWays(col) ==
    LET f == [i \in 1..Len(col) |-> Ffill(col, i)]
        b == [i \in 1..Len(col) |-> Bfill(f, i)]
    IN  [i \in 1..Len(col) |-> IF IsNa(b[i]) THEN <<0>> ELSE b[i]]

Column(df, name) == [i \in 1..Len(df.rows) |-> df.rows[i][name]]

WithColumn(df, name, col) ==
    [cols |-> df.cols \cup {name},
     rows |-> [i \in 1..Len(df.rows) |-> [df.rows[i] EXCEPT ![name] = col[i]]]]

\* StreamDataProcessor._validate_essential_columns: the missing columns
MissingEssential(df, essential) ==
    {essential[k] : k \in {j \in 1..Len(essential) : essential[j] \notin df.cols}}

\* StreamDataProcessor._process_temporal_data
process_temporal_data(df) ==
    IF "time" \in df.cols
    THEN WithColumn(df, "time", FillBothWays(Column(df, "time")))
    ELSE df

\* StreamDataProcessor._process_motion_data, for velocity_smooth
process_motion_data(df) ==
    IF "velocity_smooth" \in df.cols
    THEN WithColumn(df, "velocity_smooth", FillBothWays(Column(df, "velocity_smooth")))
    ELSE df

\* time_diffs > GAP_DETECTION_THRESHOLD; the diff of the first row is NaN
LargeGap(df, i) ==
    /\ i > 1
    /\ df.rows[i].time[1] - df.rows[i - 1].time[1] > GAP_DETECTION_THRESHOLD

\* The branch taken when the table has no time column or at most one row.
VelocityBranch(df) == "velocity_smooth" \in df.cols

\* StreamDataProcessor._infer_moving_state
infer_moving_state(df) ==
    LET d == IF "moving" \in df.cols
             THEN df
             ELSE WithColumn(df, "moving", [i \in 1..Len(df.rows) |-> <<TRUE>>])
    IN  IF "time" \in d.cols /\ Len(d.rows) > 1
        THEN WithColumn(d, "moving",
                 [i \in 1..Len(d.rows) |->
                     IF LargeGap(d, i) THEN <<FALSE>> ELSE d.rows[i].moving])
        ELSE IF VelocityBranch(d)
        THEN WithColumn(d, "moving",
                 [i \in 1..Len(d.rows) |->
                     <<d.rows[i].velocity_smooth[1] > VelocityThreshold>>])
        ELSE d

\* StreamDataProcessor.process
process(df, settings) ==
    IF MissingEssential(df, settings.stream_essential_columns) # {}
    THEN [raised |-> "ValidationError", df |-> [cols |-> {}, rows |-> <<>>]]
    ELSE [raised |-> "none",
          df |-> infer_moving_state(process_motion_data(process_temporal_data(df)))]

\* ---- the inputs of the processor specification ----
MaxProcSamples == 2

MaxProcTime == 3

ProcVelocities == {0, 10}

ProcCells(present, values) ==
    IF present THEN {NaN} \cup {<<v>> : v \in values} ELSE {NaN}

ProcStreams ==
    UNION {{[cols |-> cols,
             rows |-> [i \in 1..n |->
                          [time |-> t[i], moving |-> m[i], velocity_smooth |-> v[i]]]] :
                t \in [1..n -> ProcCells("time" \in cols, 0..MaxProcTime)],
                m \in [1..n -> IF "moving" \in cols
                                THEN {<<TRUE>>, <<FALSE>>} ELSE {NaN}],
                v \in [1..n -> ProcCells("velocity_smooth" \in cols, ProcVelocities)]} :
           n \in 0..MaxProcSamples,
           cols \in SUBSET {"time", "moving", "velocity_smooth"}}

\* The default Settings, and one whose stream_essential_columns names time only.
ProcSettings ==
    {[stream_essential_columns |-> e] : e \in {stream_essential_columns, <<"time">>}}

ProcInit ==
    /\ uIn \in [df : ProcStreams, settings : ProcSettings]
    /\ uOut = <<>>
    /\ uPhase = "in"

ProcCall ==
    /\ uPhase = "in"
    /\ uOut' = process(uIn.df, uIn.settings)
    /\ uPhase' = "out"
    /\ UNCHANGED <<uIn, notUnit>>

\* The caller is done with the processed stream; the file may be read again.
ProcDiscard ==
    /\ uPhase = "out"
    /\ uOut' = <<>>
    /\ uPhase' = "in"
    /\ UNCHANGED <<uIn, notUnit>>

ProcNext == ProcCall \/ ProcDiscard

InitProc == ProcInit /\ IdleButUnit

SpecProc == InitProc /\ [][ProcNext]_vars

\* C11: in the stream process returns, moving is false on every sample that
\* follows a gap of more than 2 s and is what the source supplied on every
\* other sample (true when the source has no moving column).
C11_MovingFromGaps ==
    (uPhase = "out" /\ uOut.raised = "none") =>
        \A i \in 1..Len(uOut.df.rows) :
            uOut.df.rows[i].moving =
                IF LargeGap(uOut.df, i) THEN <<FALSE>>
                ELSE IF "moving" \in uIn.df.cols THEN uIn.df.rows[i].moving
                ELSE <<TRUE>>

\* C12: process raises ValidationError exactly when the stream has no time
\* column, the only case in which moving cannot be derived from the gaps; a
\* stream with time and without moving is accepted.
C12_RejectsOnlyWithoutTime ==
    uPhase = "out" =>
        ((uOut.raised = "ValidationError") <=> ("time" \notin uIn.df.cols))

\* The table handed to the fitness recurrence with its rows in the order p.
Reordered(df, p) == [df EXCEPT !.rows = [i \in 1..Len(df.rows) |-> df.rows[p[i]]]]

\* C13: the loads attached to each activity are those of the traversal by
\* ascending date with same-date activities in ascending id, and they are
\* the same for every order of the rows of the table handed in.
C13_TiesByActivityId ==
    fPhase = "out" =>
        /\ \E ord \in Perms(Len(fOut)) :
              /\ ObeysRecurrence(ord)
              /\ \A i, j \in 1..Len(fOut) :
                    (i < j /\ fOut[ord[i]].date = fOut[ord[j]].date) =>
                        fOut[ord[i]].id < fOut[ord[j]].id
        /\ \A p \in Perms(Len(fIn.rows)) :
              \A out \in compute_per_activity_training_load(Reordered(fIn, p)) :
                  \A i \in 1..Len(fOut) : \E j \in 1..Len(out) : out[j] = fOut[i]

(***************************************************************************)
(* BaseMetricCalculator (metrics/base.py): the time-weighted primitives    *)
(*                                                                         *)
(* A processed stream or view: [cols, rows], a row [time, watts,           *)
(* heartrate] of whole numbers (the processor has filled every cell).  A   *)
(* pandas Series taken from it is [col, idx]: the column and the ascending *)
(* sequence of the row numbers it keeps.  Means are in thousandths.        *)
(***************************************************************************)
\* A variant that keeps zero and negative deltas.
ClipLowerNone(x) == x

\* time_diffs.clip(lower=1.0)
ClipLower(x) == Max2(x, 1)

\* time_diffs.clip(upper=GAP_DETECTION_THRESHOLD) when clip_gaps
ClipUpper(x, clip_gaps) == IF clip_gaps THEN Min2(x, GAP_DETECTION_THRESHOLD) ELSE x

\* stream_df.loc[values.index]
Loc(stream_df, idx) ==
    [cols |-> stream_df.cols, rows |-> [k \in 1..Len(idx) |-> stream_df.rows[idx[k]]]]

\* A variant in which the first point always weighs one second.
FirstDeltaOne(diff) == 1

\* time_diffs.iloc[1] if len(time_diffs) > 1 else 1.0
FirstDelta(diff) == IF Len(diff) > 1 THEN diff[2] ELSE 1

\* BaseMetricCalculator._calculate_time_deltas
calculate_time_deltas(stream_df, clip_gaps) ==
    LET n == Len(stream_df.rows) IN
    IF "time" \notin stream_df.cols \/ n = 0
    THEN [i \in 1..n |-> 1]
    ELSE LET diff == [i \in 1..n |->
                         IF i = 1 THEN 0
                         ELSE stream_df.rows[i].time - stream_df.rows[i - 1].time]
             time_diffs == [i \in 1..n |-> IF i = 1 THEN FirstDelta(diff) ELSE diff[i]]
         IN  [i \in 1..n |-> ClipUpper(ClipLower(time_diffs[i]), clip_gaps)]

\* (values * time_deltas).sum()
WeightedSum(values, stream_df, clip_gaps) ==
    LET time_deltas == calculate_time_deltas(Loc(stream_df, values.idx), clip_gaps)
    IN  SumSeq([k \in 1..Len(values.idx) |->
                   stream_df.rows[values.idx[k]][values.col] * time_deltas[k]])

\* time_deltas.sum()
TotalTime(values, stream_df, clip_gaps) ==
    SumSeq(calculate_time_deltas(Loc(stream_df, values.idx), clip_gaps))

\* BaseMetricCalculator._time_weighted_mean, in thousandths
time_weighted_mean(values, stream_df, clip_gaps) ==
    IF values.idx = <<>> THEN 0
    ELSE IF TotalTime(values, stream_df, clip_gaps) > 0
    THEN (WeightedSum(values, stream_df, clip_gaps) * Milli)
             \div TotalTime(values, stream_df, clip_gaps)
    ELSE 0

\* ---- the inputs of the time-weighted mean specification ----
MaxTwmSamples == 3

MaxTwmTime == 4

TwmWatts == {0, 200}

\* The ascending sequences of row numbers of a table of n rows.
RECURSIVE AscendingRange(_, _, _)
AscendingRange(keep, lo, hi) ==
    IF lo > hi THEN <<>>
    ELSE IF lo = hi THEN (IF keep[lo] THEN <<lo>> ELSE <<>>)
    ELSE AscendingRange(keep, lo, (lo + hi) \div 2)
             \o AscendingRange(keep, (lo + hi) \div 2 + 1, hi)

\* The row numbers i with keep[i], ascending.
Ascending(keep) == AscendingRange(keep, 1, Len(keep))

TwmStreams ==
    UNION {{[cols |-> cols,
             rows |-> [i \in 1..n |-> [time |-> t[i], watts |-> w[i], heartrate |-> 0]]] :
                t \in [1..n -> IF "time" \in cols THEN 0..MaxTwmTime ELSE {0}],
                w \in [1..n -> TwmWatts]} :
           n \in 0..MaxTwmSamples, cols \in {{"time", "watts"}, {"watts"}}}

\* test_commute_with_stops: 200 W for 30 s, a stop of 20 s, 200 W for 30 s
CommuteStream ==
    [cols |-> {"time", "watts"},
     rows |-> <<[time |-> 0, watts |-> 200, heartrate |-> 0],
                [time |-> 30, watts |-> 200, heartrate |-> 0],
                [time |-> 50, watts |-> 0, heartrate |-> 0],
                [time |-> 80, watts |-> 200, heartrate |-> 0]>>]

\* The same ride recorded once per second: samples 0..79.
CommuteStreamOneHertz ==
    [cols |-> {"time", "watts"},
     rows |-> [i \in 1..80 |->
                  [time |-> i - 1,
                   watts |-> IF i > 30 /\ i <= 50 THEN 0 ELSE 200,
                   heartrate |-> 0]]]

TwmCalls ==
    UNION {{[values |-> [col |-> "watts", idx |-> Ascending(keep)],
             stream_df |-> df, clip_gaps |-> c] :
                keep \in [1..Len(df.rows) -> BOOLEAN], c \in BOOLEAN} :
           df \in TwmStreams}
    \cup {[values |-> [col |-> "watts", idx |-> [i \in 1..Len(df.rows) |-> i]],
           stream_df |-> df, clip_gaps |-> FALSE] :
             df \in {CommuteStream, CommuteStreamOneHertz}}

TwmInit ==
    /\ uIn \in TwmCalls
    /\ uOut = <<>>
    /\ uPhase = "in"

TwmCall ==
    /\ uPhase = "in"
    /\ uOut' = [mean |-> time_weighted_mean(uIn.values, uIn.stream_df, uIn.clip_gaps)]
    /\ uPhase' = "out"
    /\ UNCHANGED <<uIn, notUnit>>

\* The calculator has stored the mean; the next metric is computed.
TwmDiscard ==
    /\ uPhase = "out"
    /\ uOut' = <<>>
    /\ uPhase' = "in"
    /\ UNCHANGED <<uIn, notUnit>>

TwmNext == TwmCall \/ TwmDiscard

InitTwm == TwmInit /\ IdleButUnit

SpecTwm == InitTwm /\ [][TwmNext]_vars

\* The times of the samples the series keeps.
SelectedTimes == [k \in 1..Len(uIn.values.idx) |-> uIn.stream_df.rows[uIn.values.idx[k]].time]

SelectedValues ==
    [k \in 1..Len(uIn.values.idx) |-> uIn.stream_df.rows[uIn.values.idx[k]][uIn.values.col]]

\* dt[k] as the text gives it: the difference to the previous kept sample,
\* that of the second sample for the first one, 1 for a single sample, at
\* least 1, and at most the gap threshold only when gaps are clipped.
StatedDelta(k) ==
    LET ts == SelectedTimes
        raw == IF Len(ts) = 1 THEN 1
               ELSE IF k = 1 THEN ts[2] - ts[1]
               ELSE ts[k] - ts[k - 1]
        low == IF raw < 1 THEN 1 ELSE raw
    IN  IF uIn.clip_gaps /\ low > GAP_DETECTION_THRESHOLD
        THEN GAP_DETECTION_THRESHOLD ELSE low

\* C14: the time-weighted mean of a series over a stream with a time column
\* is the sum of values[i] dt[i] over the sum of dt[i], with dt as stated,
\* and 0 for an empty series.
C14_TimeWeightedMean ==
    (uPhase = "out" /\ "time" \in uIn.stream_df.cols) =>
        IF uIn.values.idx = <<>>
        THEN uOut.mean = 0
        ELSE uOut.mean =
                (SumSeq([k \in 1..Len(SelectedTimes) |-> SelectedValues[k] * StatedDelta(k)])
                    * Milli)
                \div SumSeq([k \in 1..Len(SelectedTimes) |-> StatedDelta(k)])

\* A mean has been taken over a proper part of the samples, with one delta
\* raised to 1 and one delta above the gap threshold left as it is.
C14_Witness ==
    /\ uPhase = "out"
    /\ "time" \in uIn.stream_df.cols
    /\ ~uIn.clip_gaps
    /\ Len(uIn.values.idx) = 3
    /\ SelectedTimes[2] - SelectedTimes[1] < 1
    /\ SelectedTimes[3] - SelectedTimes[2] > GAP_DETECTION_THRESHOLD
    /\ SelectedValues[1] # SelectedValues[3]
    /\ uOut.mean > 0

\* C15 as stated: the raw-view average power of the commute samples
\* time = [0, 30, 50, 80], watts = [200, 200, 0, 200] is 150 W.
C15_CommuteIs150 ==
    (uPhase = "out" /\ uIn.stream_df = CommuteStream /\ ~uIn.clip_gaps) =>
        uOut.mean = 150 * Milli

\* C15 amended: on the four commute samples the first sample weighs 30 s as
\* well, so the average is 18000 / 110 W (163.636 W); it is 150 W exactly
\* when the same ride is sampled once per second.
C15_CommuteAverage ==
    (uPhase = "out" /\ ~uIn.clip_gaps) =>
        /\ uIn.stream_df = CommuteStream =>
              /\ WeightedSum(uIn.values, uIn.stream_df, FALSE) = 18000
              /\ TotalTime(uIn.values, uIn.stream_df, FALSE) = 110
              /\ uOut.mean = (18000 * Milli) \div 110
        /\ uIn.stream_df = CommuteStreamOneHertz =>
              /\ WeightedSum(uIn.values, uIn.stream_df, FALSE)
                    = 150 * TotalTime(uIn.values, uIn.stream_df, FALSE)
              /\ TotalTime(uIn.values, uIn.stream_df, FALSE) = 80
              /\ uOut.mean = 150 * Milli

\* The average power of the four commute samples has been computed.
C15_Witness ==
    /\ uPhase = "out"
    /\ uIn.stream_df = CommuteStream
    /\ uIn.values.idx = <<1, 2, 3, 4>>
    /\ uOut.mean > 0

(***************************************************************************)
(* PowerCalculator (metrics/power.py)                                      *)
(*                                                                         *)
(* Rows carry a moving flag as well.  Powers are whole watts; the factor   *)
(* and the score are in thousandths.  The streams are kept to watts whose  *)
(* fourth power, summed over an hour, stays within the integers of the     *)
(* checker.                                                                *)
(***************************************************************************)
SECONDS_PER_HOUR == 3600

NORMALIZED_POWER_WINDOW == 30

\* BaseMetricCalculator._filter_moving
filter_moving(stream_df, moving_only) ==
    IF moving_only /\ "moving" \in stream_df.cols
    THEN Loc(stream_df,
             Ascending([i \in 1..Len(stream_df.rows) |-> stream_df.rows[i].moving]))
    ELSE stream_df

\* BaseMetricCalculator._get_total_duration
get_total_duration(stream_df) ==
    IF "time" \notin stream_df.cols \/ Len(stream_df.rows) = 0
    THEN Len(stream_df.rows)
    ELSE SumSeq(calculate_time_deltas(stream_df, FALSE))

\* power_series[power_series > 0].index
ValidPowerIndex(stream_df) ==
    Ascending([i \in 1..Len(stream_df.rows) |-> stream_df.rows[i].watts > 0])

\* valid_power.rolling(window=30, min_periods=1).mean(), in whole watts
RollingAvg(stream_df, idx) ==
    LET valid == [k \in 1..Len(idx) |-> stream_df.rows[idx[k]].watts]
    IN  [k \in 1..Len(idx) |->
            LET lo == Max2(1, k - NORMALIZED_POWER_WINDOW + 1)
            IN  SumRange(valid, lo, k) \div (k - lo + 1)]

\* A variant that raises the rolling average to the third power.
ThirdPower(x) == x * x * x

\* rolling_avg ** 4
FourthPower(x) == x * x * x * x

\* The largest upper bound the streams give a power.
MaxWatts == 27

\* weighted_fourth ** 0.25, in whole watts
FourthRoot(x) ==
    CHOOSE r \in 0..MaxWatts :
        /\ r * r * r * r <= x
        /\ (r = MaxWatts \/ (r + 1) * (r + 1) * (r + 1) * (r + 1) > x)

\* PowerCalculator._calculate_normalized_power
calculate_normalized_power(stream_df) ==
    IF "watts" \notin stream_df.cols THEN 0
    ELSE LET idx == ValidPowerIndex(stream_df) IN
         IF Len(idx) < MIN_POWER_FOR_METRICS THEN 0
         ELSE LET rolling_avg == RollingAvg(stream_df, idx)
                  time_deltas == calculate_time_deltas(Loc(stream_df, idx), FALSE)
                  weighted_fourth ==
                      SumSeq([k \in 1..Len(idx) |->
                                 FourthPower(rolling_avg[k]) * time_deltas[k]])
                          \div SumSeq(time_deltas)
              IN  FourthRoot(weighted_fourth)

\* PowerCalculator._get_empty_metrics
get_empty_metrics(prefix) ==
    [prefix |-> prefix, average_power |-> 0, max_power |-> 0, power_per_kg |-> 0,
     normalized_power |-> 0, intensity_factor |-> 0, training_stress_score |-> 0]

MaxSeq(s) == IF s = <<>> THEN 0 ELSE CHOOSE x \in Range(s) : \A y \in Range(s) : y <= x

\* PowerCalculator.calculate
PowerCalculator_calculate(stream_df, moving_only, settings) ==
    LET df == filter_moving(stream_df, moving_only)
        prefix == get_prefix(moving_only)
    IN  IF "watts" \notin df.cols THEN get_empty_metrics(prefix)
        ELSE IF df.rows = <<>> \/ MaxSeq(Column(df, "watts")) = 0
        THEN get_empty_metrics(prefix)
        ELSE LET all == [i \in 1..Len(df.rows) |-> i]
                 avg_power == time_weighted_mean([col |-> "watts", idx |-> all],
                                                 df, moving_only)
                 normalized_power == calculate_normalized_power(df)
                 rated == normalized_power > 0 /\ settings.ftp > 0
                 intensity_factor ==
                     IF rated THEN (normalized_power * Milli) \div settings.ftp ELSE 0
                 tss == IF rated
                        THEN ((((normalized_power * intensity_factor) \div settings.ftp)
                                  * get_total_duration(df)) \div SECONDS_PER_HOUR) * 100
                        ELSE 0
             IN  [prefix |-> prefix,
                  average_power |-> avg_power,
                  max_power |-> MaxSeq(Column(df, "watts")) * Milli,
                  power_per_kg |-> avg_power \div settings.rider_weight_kg,
                  normalized_power |-> normalized_power,
                  intensity_factor |-> intensity_factor,
                  training_stress_score |-> tss]

\* ---- the inputs of the power specification ----
PowerSamples == {1, 29, 30, 1800, SECONDS_PER_HOUR}

PowerFtps == {0, 20, 25}

PowerWatts == {0, 10, 20, 25}

\* The samples of a coasting block: none, or samples 11 to 20.
CoastingBlocks == {{}, 11..20}

\* n samples, one per second, at w watts, at 0 watts and stopped while coasting
SteadyStream(n, w, coasting, cols) ==
    [cols |-> cols,
     rows |-> [i \in 1..n |->
                  [time |-> IF "time" \in cols THEN i - 1 ELSE 0,
                   watts |-> IF i \in coasting THEN 0 ELSE w,
                   heartrate |-> 0,
                   moving |-> i \notin coasting]]]

PowerCalls ==
    {[stream_df |-> SteadyStream(n, w, c, cols), moving_only |-> mo,
      settings |-> [ftp |-> ftp, rider_weight_kg |-> 77]] :
        n \in PowerSamples, w \in PowerWatts, c \in CoastingBlocks,
        cols \in {{"time", "watts", "moving"}, {"watts", "moving"}},
        mo \in BOOLEAN, ftp \in PowerFtps}

PowerInit ==
    /\ uIn \in PowerCalls
    /\ uOut = <<>>
    /\ uPhase = "in"

PowerCall ==
    /\ uPhase = "in"
    /\ uOut' = PowerCalculator_calculate(uIn.stream_df, uIn.moving_only, uIn.settings)
    /\ uPhase' = "out"
    /\ UNCHANGED <<uIn, notUnit>>

\* The orchestrator has merged the metrics; the other view is computed next.
PowerDiscard ==
    /\ uPhase = "out"
    /\ uOut' = <<>>
    /\ uPhase' = "in"
    /\ UNCHANGED <<uIn, notUnit>>

PowerNext == PowerCall \/ PowerDiscard

InitPower == PowerInit /\ IdleButUnit

SpecPower == InitPower /\ [][PowerNext]_vars

\* A stream of exactly FTP watts, one sample per second for an hour.
HourAtFtp ==
    /\ uIn.settings.ftp > 0
    /\ uIn.stream_df =
           SteadyStream(SECONDS_PER_HOUR, uIn.settings.ftp, {}, {"time", "watts", "moving"})

\* C16: for an hour at exactly FTP watts sampled once per second the
\* normalized power is FTP, the intensity factor is within 0.05 of 1 and the
\* training stress score within 5 of 100.
C16_UnitAtFtp ==
    (uPhase = "out" /\ HourAtFtp) =>
        /\ uOut.normalized_power = uIn.settings.ftp
        /\ Abs(uOut.intensity_factor - Milli) <= 50
        /\ Abs(uOut.training_stress_score - 100 * Milli) <= 5 * Milli

\* The power metrics of an hour at FTP have been computed on the raw view.
C16_Witness ==
    /\ uPhase = "out"
    /\ HourAtFtp
    /\ ~uIn.moving_only
    /\ uOut.average_power = uIn.settings.ftp * Milli
    /\ uOut.training_stress_score > 0

(***************************************************************************)
(* TIDCalculator (metrics/tid.py)                                          *)
(*                                                                         *)
(* A metrics dict is a function from its keys to its values.  Percentages  *)
(* and ratios are in thousandths; thresholds are compared in hundredths    *)
(* of the unit (0.76 * ftp as 76 * ftp against 100 * watts).               *)
(***************************************************************************)
\* 0.76 and 0.90 of FTP, in percent
PowerTidZone1Pct == 76

PowerTidZone2Pct == 90

\* HeartRateZoneThresholds.ZONE_1_MAX and ZONE_3_MAX, in percent
ZONE_1_MAX == 82

ZONE_3_MAX == 94

\* A variant whose high band starts above the threshold.
Zone3MaskStrict(value, threshold, zone2_pct) == 100 * value > zone2_pct * threshold

\* series < zone1_threshold
Zone1Mask(value, threshold, zone1_pct) == 100 * value < zone1_pct * threshold

\* (series >= zone1_threshold) & (series < zone2_threshold)
Zone2Mask(value, threshold, zone1_pct, zone2_pct) ==
    /\ 100 * value >= zone1_pct * threshold
    /\ 100 * value < zone2_pct * threshold

\* series >= zone2_threshold
Zone3Mask(value, threshold, zone2_pct) == 100 * value >= zone2_pct * threshold

\* time_deltas[mask].sum()
MaskedTime(time_deltas, mask) ==
    SumSeq([i \in 1..Len(time_deltas) |-> IF mask[i] THEN time_deltas[i] ELSE 0])

\* zone1_time, zone2_time, zone3_time and total_time of a series
TidTimes(series, stream_df, threshold, zone1_pct, zone2_pct) ==
    LET time_deltas == calculate_time_deltas(stream_df, FALSE)
        n == Len(stream_df.rows)
    IN  [zone1_time |-> MaskedTime(time_deltas,
                            [i \in 1..n |-> Zone1Mask(series[i], threshold, zone1_pct)]),
         zone2_time |-> MaskedTime(time_deltas,
                            [i \in 1..n |->
                                Zone2Mask(series[i], threshold, zone1_pct, zone2_pct)]),
         zone3_time |-> MaskedTime(time_deltas,
                            [i \in 1..n |-> Zone3Mask(series[i], threshold, zone2_pct)]),
         total_time |-> SumSeq(time_deltas)]

\* (zone_time / total_time) * 100
TidPct(zone_time, total_time) == (zone_time * 100 * Milli) \div total_time

\* The five metrics of one series, under the keys that start with kind.
TidMetrics(kind, t) ==
    LET z1_pct == TidPct(t.zone1_time, t.total_time)
        z2_pct == TidPct(t.zone2_time, t.total_time)
        z3_pct == TidPct(t.zone3_time, t.total_time)
    IN  (kind \o "_tid_z1_percentage") :> z1_pct
        @@ (kind \o "_tid_z2_percentage") :> z2_pct
        @@ (kind \o "_tid_z3_percentage") :> z3_pct
        @@ (kind \o "_polarization_index") :>
               (IF z2_pct > 0 THEN ((z1_pct + z3_pct) * Milli) \div z2_pct ELSE 0)
        @@ (kind \o "_tdr") :> (IF z3_pct > 0 THEN (z1_pct * Milli) \div z3_pct ELSE 0)

\* the empty dict
EmptyDict == [k \in {} |-> 0]

\* TIDCalculator._calculate_power_tid
calculate_power_tid(power_series, stream_df, settings) ==
    IF power_series = <<>> THEN EmptyDict
    ELSE LET t == TidTimes(power_series, stream_df, settings.ftp,
                           PowerTidZone1Pct, PowerTidZone2Pct)
         IN  IF t.total_time = 0 THEN EmptyDict ELSE TidMetrics("power", t)

\* TIDCalculator._calculate_hr_tid
calculate_hr_tid(hr_series, stream_df, settings) ==
    IF hr_series = <<>> THEN EmptyDict
    ELSE LET t == TidTimes(hr_series, stream_df, settings.fthr, ZONE_1_MAX, ZONE_3_MAX)
         IN  IF t.total_time = 0 THEN EmptyDict ELSE TidMetrics("hr", t)

\* TIDCalculator.calculate
TIDCalculator_calculate(stream_df, settings) ==
    (IF "watts" \in stream_df.cols /\ settings.ftp > 0
     THEN calculate_power_tid(Column(stream_df, "watts"), stream_df, settings)
     ELSE EmptyDict)
    @@ (IF "heartrate" \in stream_df.cols /\ settings.fthr > 0
        THEN calculate_hr_tid(Column(stream_df, "heartrate"), stream_df, settings)
        ELSE EmptyDict)

\* ---- the inputs of the TID specification ----
MaxTidSamples == 3

\* the steps between consecutive samples: a repeated time, 1 s, a gap
TidSteps == {0, 1, 3}

\* below, at and above 76 % and 90 % of an FTP of 200
TidWatts == {100, 152, 180}

\* below 82 % and at 94 % of an FTHR of 150
TidHeartRates == {120, 141}

TidFthr == 150

RECURSIVE TimesFromSteps(_, _)
TimesFromSteps(steps, i) ==
    IF i = 1 THEN 0 ELSE TimesFromSteps(steps, i - 1) + steps[i]

TidStreams ==
    UNION {{[cols |-> cols,
             rows |-> [i \in 1..n |->
                          [time |-> IF "time" \in cols THEN TimesFromSteps(st, i) ELSE 0,
                           watts |-> IF "watts" \in cols THEN w[i] ELSE 0,
                           heartrate |-> IF "heartrate" \in cols THEN h[i] ELSE 0]]] :
                st \in [1..n -> TidSteps], w \in [1..n -> TidWatts],
                h \in [1..n -> TidHeartRates]} :
           n \in 0..MaxTidSamples,
           cols \in {{"time", "watts", "heartrate"}, {"time", "watts"},
                     {"time", "heartrate"}, {"watts", "heartrate"}}}

TidSettings == [ftp : {0, CurFtp}, fthr : {0, TidFthr}]

TidInit ==
    /\ uIn \in [stream_df : TidStreams, settings : TidSettings]
    /\ uOut = <<>>
    /\ uPhase = "in"

TidCall ==
    /\ uPhase = "in"
    /\ uOut' = [metrics |-> TIDCalculator_calculate(uIn.stream_df, uIn.settings)]
    /\ uPhase' = "out"
    /\ UNCHANGED <<uIn, notUnit>>

\* The orchestrator has merged the metrics; the other view is computed next.
TidDiscard ==
    /\ uPhase = "out"
    /\ uOut' = <<>>
    /\ uPhase' = "in"
    /\ UNCHANGED <<uIn, notUnit>>

TidNext == TidCall \/ TidDiscard

InitTid == TidInit /\ IdleButUnit

SpecTid == InitTid /\ [][TidNext]_vars

\* The number of the three bands a value falls in.
BandsOf(value, threshold, zone1_pct, zone2_pct) ==
    (IF Zone1Mask(value, threshold, zone1_pct) THEN 1 ELSE 0)
    + (IF Zone2Mask(value, threshold, zone1_pct, zone2_pct) THEN 1 ELSE 0)
    + (IF Zone3Mask(value, threshold, zone2_pct) THEN 1 ELSE 0)

\* The TID of a series counts every sample in exactly one band, its band
\* times add up to the total time, and its three percentages add up to 100
\* (to the two thousandths the three roundings may lose).
TidTotals(kind, col, threshold, zone1_pct, zone2_pct) ==
    LET t == TidTimes(Column(uIn.stream_df, col), uIn.stream_df, threshold,
                      zone1_pct, zone2_pct)
        total == uOut.metrics[kind \o "_tid_z1_percentage"]
                 + uOut.metrics[kind \o "_tid_z2_percentage"]
                 + uOut.metrics[kind \o "_tid_z3_percentage"]
    IN  /\ (kind \o "_tid_z1_percentage") \in DOMAIN uOut.metrics
        /\ \A i \in 1..Len(uIn.stream_df.rows) :
              BandsOf(uIn.stream_df.rows[i][col], threshold, zone1_pct, zone2_pct) = 1
        /\ t.zone1_time + t.zone2_time + t.zone3_time = t.total_time
        /\ total <= 100 * Milli
        /\ total >= 100 * Milli - 2

\* C17: for a non-empty stream with watts and FTP > 0 the power TID
\* percentages sum to 100, every sample counted in exactly one band; the
\* same for heartrate with FTHR > 0 and the HR TID.
C17_TidTotals ==
    (uPhase = "out" /\ uIn.stream_df.rows # <<>>) =>
        /\ ("watts" \in uIn.stream_df.cols /\ uIn.settings.ftp > 0) =>
              TidTotals("power", "watts", uIn.settings.ftp,
                        PowerTidZone1Pct, PowerTidZone2Pct)
        /\ ("heartrate" \in uIn.stream_df.cols /\ uIn.settings.fthr > 0) =>
              TidTotals("hr", "heartrate", uIn.settings.fthr, ZONE_1_MAX, ZONE_3_MAX)

\* Both TIDs have been computed on a stream with a gap, with a sample at the
\* lower power threshold, one at the upper power threshold and one at the
\* upper heart-rate threshold.
C17_Witness ==
    /\ uPhase = "out"
    /\ Len(uIn.stream_df.rows) = 3
    /\ uIn.stream_df.cols = {"time", "watts", "heartrate"}
    /\ uIn.settings.ftp > 0
    /\ uIn.settings.fthr > 0
    /\ uIn.stream_df.rows[3].time - uIn.stream_df.rows[2].time > GAP_DETECTION_THRESHOLD
    /\ 100 * uIn.stream_df.rows[1].watts = PowerTidZone1Pct * uIn.settings.ftp
    /\ 100 * uIn.stream_df.rows[2].watts = PowerTidZone2Pct * uIn.settings.ftp
    /\ 100 * uIn.stream_df.rows[3].heartrate = ZONE_3_MAX * uIn.settings.fthr
    /\ uOut.metrics["power_tid_z3_percentage"] > 0
    /\ uOut.metrics["hr_tid_z3_percentage"] > 0

(***************************************************************************)
(* TIDCalculator.calculate_tid_classification; percentages in whole        *)
(* percent.                                                                *)
(***************************************************************************)
\* A variant that takes 75 % of low intensity for polarized already.
IsPolarizedFrom75(z1_pct, z2_pct) == z1_pct >= 75 /\ z2_pct < 10

\* z1_pct > 75 and z2_pct < 10
IsPolarized(z1_pct, z2_pct) == z1_pct > 75 /\ z2_pct < 10

\* TIDCalculator.calculate_tid_classification
calculate_tid_classification(z1_pct, z2_pct, z3_pct) ==
    IF IsPolarized(z1_pct, z2_pct) THEN "polarized"
    ELSE IF z1_pct > z2_pct /\ z2_pct > z3_pct THEN "pyramidal"
    ELSE "threshold"

\* ---- the inputs of the classification specification ----
ClassPercentages == {0, 5, 9, 10, 15, 20, 30, 50, 60, 75, 76, 80, 100}

ClassInit ==
    /\ uIn \in [z1_pct : ClassPercentages, z2_pct : ClassPercentages,
                z3_pct : ClassPercentages]
    /\ uOut = <<>>
    /\ uPhase = "in"

ClassCall ==
    /\ uPhase = "in"
    /\ uOut' = [classification |->
                   calculate_tid_classification(uIn.z1_pct, uIn.z2_pct, uIn.z3_pct)]
    /\ uPhase' = "out"
    /\ UNCHANGED <<uIn, notUnit>>

\* The orchestrator has stored the classification.
ClassDiscard ==
    /\ uPhase = "out"
    /\ uOut' = <<>>
    /\ uPhase' = "in"
    /\ UNCHANGED <<uIn, notUnit>>

ClassNext == ClassCall \/ ClassDiscard

InitClass == ClassInit /\ IdleButUnit

SpecClass == InitClass /\ [][ClassNext]_vars

\* C18: the classification is polarized exactly when z1 > 75 and z2 < 10,
\* else pyramidal exactly when z1 > z2 > z3, else threshold; so (80, 5, 15)
\* is polarized, (60, 30, 10) pyramidal and (30, 50, 20) threshold.
C18_Classification ==
    uPhase = "out" =>
        LET polarized == uIn.z1_pct > 75 /\ uIn.z2_pct < 10
            pyramidal == uIn.z1_pct > uIn.z2_pct /\ uIn.z2_pct > uIn.z3_pct
        IN  /\ (uOut.classification = "polarized") <=> polarized
            /\ (uOut.classification = "pyramidal") <=> (~polarized /\ pyramidal)
            /\ (uOut.classification = "threshold") <=> (~polarized /\ ~pyramidal)
            /\ uIn = [z1_pct |-> 80, z2_pct |-> 5, z3_pct |-> 15] =>
                  uOut.classification = "polarized"
            /\ uIn = [z1_pct |-> 60, z2_pct |-> 30, z3_pct |-> 10] =>
                  uOut.classification = "pyramidal"
            /\ uIn = [z1_pct |-> 30, z2_pct |-> 50, z3_pct |-> 20] =>
                  uOut.classification = "threshold"

\* The distribution (80, 5, 15) has been classified.
C18_Witness ==
    /\ uPhase = "out"
    /\ uIn = [z1_pct |-> 80, z2_pct |-> 5, z3_pct |-> 15]
    /\ uOut.classification = "polarized"

(***************************************************************************)
(* estimate_cp_wprime (metrics/power_curve.py)                             *)
(*                                                                         *)
(* mmp_data is a sequence of <<duration, power>>, the power a cell, empty  *)
(* for NaN; ftp is a cell, empty for None.  scipy's curve_fit is outside   *)
(* the repository: with bounds it checks its data (ValueError for data     *)
(* that is empty or not finite and for a first guess outside the bounds),  *)
(* runs the trust-region least squares and raises RuntimeError when that   *)
(* ends without success.  Powers in W, CP in thousandths of a watt, W' in  *)
(* J.                                                                      *)
(***************************************************************************)
MIN_DURATION_SEC == 120

NanResult == [cp |-> NaN, w_prime |-> NaN, r_squared |-> NaN]

\* [(d, p) for d, p in mmp_data if d >= MIN_DURATION_SEC]
RECURSIVE FilteredData(_)
FilteredData(mmp_data) ==
    IF mmp_data = <<>> THEN <<>>
    ELSE (IF Head(mmp_data)[1] >= MIN_DURATION_SEC THEN <<Head(mmp_data)>> ELSE <<>>)
             \o FilteredData(Tail(mmp_data))

\* len(filtered_data) < 3
TooFewFiltered(filtered_data) == Len(filtered_data) < 3

MinSeq(s) == CHOOSE x \in Range(s) : \A y \in Range(s) : x <= y

\* max(lo, min(x, hi))
Clamp(x, lo, hi) == Max2(lo, Min2(x, hi))

\* np.argmax(durations): the first position of the largest duration
ArgMax(s) == CHOOSE i \in 1..Len(s) :
                 /\ \A j \in 1..Len(s) : s[j] <= s[i]
                 /\ \A j \in 1..(i - 1) : s[j] < s[i]

\* max(lo, min(x, hi)) of Python on floats: min keeps a NaN that comes
\* first, and max then keeps lo.
ClampCell(x, lo, hi) == IF IsNa(x) THEN lo ELSE Clamp(x[1], lo, hi)

\* The values of cells that are all filled.
Values(cells) == [k \in 1..Len(cells) |-> cells[k][1]]

HasNan(cells) == \E k \in 1..Len(cells) : IsNa(cells[k])

\* p0 = [initial_cp, initial_w_prime]; powers.max() and powers.min() are NaN
\* when a power is.
InitialGuess(durations, powers, ftp) ==
    LET with_ftp == ~IsNa(ftp) /\ ftp[1] > 0
        longest == powers[ArgMax(durations)]
        initial_cp == IF with_ftp THEN <<(ftp[1] * 88) \div 100>>
                      ELSE IF IsNa(longest) THEN NaN
                      ELSE <<(longest[1] * 95) \div 100>>
        power_range == IF HasNan(powers) THEN NaN
                       ELSE <<(MaxSeq(Values(powers)) - MinSeq(Values(powers)))
                                  * MinSeq(durations)>>
        initial_w_prime == IF with_ftp THEN 15000
                           ELSE ClampCell(power_range, 5000, 25000)
    IN  <<ClampCell(initial_cp, 100, 400), Clamp(initial_w_prime, 5000, 30000)>>

\* ---- the least-squares fit of P = CP + W'/t within the bounds ----
RECURSIVE Gcd(_, _)
Gcd(a, b) == IF b = 0 THEN a ELSE Gcd(b, a % b)

\* The fraction a / b in lowest terms, its denominator positive.
Frac(a, b) ==
    LET g == Gcd(Abs(a), Abs(b))
    IN  IF b < 0 THEN [num |-> (0 - a) \div g, den |-> (0 - b) \div g]
        ELSE [num |-> a \div g, den |-> b \div g]

\* The integer nearest to a / b, for b > 0.
RoundDiv(a, b) ==
    IF a >= 0 THEN (2 * a + b) \div (2 * b) ELSE 0 - ((2 * (0 - a) + b) \div (2 * b))

\* a / b in thousandths, for a >= 0 and b > 0.
MilliRatio(a, b) == (a \div b) * Milli + RoundDiv((a % b) * Milli, b)

RECURSIVE LcmSeq(_)
LcmSeq(s) ==
    IF s = <<>> THEN 1
    ELSE LET rest == LcmSeq(Tail(s)) IN (Head(s) \div Gcd(Head(s), rest)) * rest

\* The sums of the normal equations.  With L a common multiple of the
\* durations and u = L / t, the model is P = CP + (W'/L) * u.
FitSums(durations, powers) ==
    LET L == LcmSeq(durations)
        u == [k \in 1..Len(durations) |-> L \div durations[k]]
    IN  [n |-> Len(durations), L |-> L, u |-> u, p |-> powers,
         Su |-> SumSeq(u),
         Suu |-> SumSeq([k \in 1..Len(u) |-> u[k] * u[k]]),
         Sp |-> SumSeq(powers),
         Spp |-> SumSeq([k \in 1..Len(powers) |-> powers[k] * powers[k]]),
         Sup |-> SumSeq([k \in 1..Len(u) |-> u[k] * powers[k]])]

\* Half the derivative of the sum of squared residuals with respect to CP
\* and to W'/L at the point pt = [cp, w] (w is W'/L), times the denominators.
GradCp(sums, pt) ==
    sums.n * pt.cp.num * pt.w.den + pt.w.num * sums.Su * pt.cp.den
        - sums.Sp * pt.cp.den * pt.w.den

GradW(sums, pt) ==
    pt.cp.num * sums.Su * pt.w.den + pt.w.num * sums.Suu * pt.cp.den
        - sums.Sup * pt.cp.den * pt.w.den

\* The points that can be the minimum within the bounds: the free minimum,
\* the minimum for a given CP (every whole watt, the bounds among them), the
\* minimum for W' at a bound, and the corners.
FitCandidates(sums, lower, upper) ==
    LET det == sums.n * sums.Suu - sums.Su * sums.Su
        w_bounds == {Frac(lower[2], sums.L), Frac(upper[2], sums.L)}
        WGivenCp(c) == Frac(sums.Sup * c.den - c.num * sums.Su, sums.Suu * c.den)
        CpGivenW(w) == Frac(sums.Sp * w.den - w.num * sums.Su, sums.n * w.den)
    IN  (IF det = 0 THEN {}
         ELSE {[cp |-> Frac(sums.Sp * sums.Suu - sums.Su * sums.Sup, det),
                w |-> Frac(sums.n * sums.Sup - sums.Su * sums.Sp, det)]})
        \cup {[cp |-> Frac(c, 1), w |-> WGivenCp(Frac(c, 1))] : c \in lower[1]..upper[1]}
        \cup {[cp |-> CpGivenW(w), w |-> w] : w \in w_bounds}
        \cup {[cp |-> Frac(c, 1), w |-> w] : c \in {lower[1], upper[1]}, w \in w_bounds}

\* The point lies within the bounds and the sum of squared residuals cannot
\* be lowered from it without leaving them.
IsBoundedMinimum(sums, pt, lower, upper) ==
    LET cp_low == pt.cp.num = lower[1] * pt.cp.den
        cp_high == pt.cp.num = upper[1] * pt.cp.den
        w_low == sums.L * pt.w.num = lower[2] * pt.w.den
        w_high == sums.L * pt.w.num = upper[2] * pt.w.den
    IN  /\ lower[1] * pt.cp.den <= pt.cp.num
        /\ pt.cp.num <= upper[1] * pt.cp.den
        /\ lower[2] * pt.w.den <= sums.L * pt.w.num
        /\ sums.L * pt.w.num <= upper[2] * pt.w.den
        /\ \/ GradCp(sums, pt) = 0
           \/ cp_low /\ GradCp(sums, pt) > 0
           \/ cp_high /\ GradCp(sums, pt) < 0
        /\ \/ GradW(sums, pt) = 0
           \/ w_low /\ GradW(sums, pt) > 0
           \/ w_high /\ GradW(sums, pt) < 0

\* curve_fit(hyperbolic_model, durations, powers, p0, bounds, maxfev): every
\* outcome the call may have.  Data that is empty or holds a NaN, and a
\* first guess outside the bounds, are refused with ValueError.  The model
\* is linear in CP and W', so a fit that converges returns the
\* least-squares minimum within the bounds; when all durations are equal
\* the minimum is a segment, and the fit may end anywhere on it (here: at
\* the whole watts of CP).  The optimiser may also end without success
\* (RuntimeError); its evaluations are not counted here, so that outcome is
\* left open for every fit.
curve_fit(durations, powers, p0, lower, upper) ==
    IF powers = <<>> \/ HasNan(powers)
    THEN {[raised |-> "ValueError", popt |-> <<>>]}
    ELSE IF \E k \in 1..2 : p0[k] < lower[k] \/ p0[k] > upper[k]
    THEN {[raised |-> "ValueError", popt |-> <<>>]}
    ELSE LET sums == FitSums(durations, Values(powers)) IN
         {[raised |-> "none", popt |-> pt] :
             pt \in {c \in FitCandidates(sums, lower, upper) :
                        IsBoundedMinimum(sums, c, lower, upper)}}
         \cup {[raised |-> "RuntimeError", popt |-> <<>>]}

\* The residual of point k, in tenths of a watt.
ResidualDeci(sums, pt, k) ==
    10 * sums.p[k]
        - RoundDiv(10 * (pt.cp.num * pt.w.den + pt.w.num * sums.u[k] * pt.cp.den),
                   pt.cp.den * pt.w.den)

\* r_squared = 1 - ss_res / ss_tot if ss_tot > 0 else nan, in thousandths.
\* At a point where both derivatives vanish ss_res / ss_tot is computed
\* exactly; elsewhere the residuals are rounded to tenths of a watt.
RSquared(sums, pt) ==
    LET n_ss_tot == sums.n * sums.Spp - sums.Sp * sums.Sp
        det == sums.n * sums.Suu - sums.Su * sums.Su
        cov == sums.n * sums.Sup - sums.Su * sums.Sp
        ss_res_deci == SumSeq([k \in 1..sums.n |->
                                  ResidualDeci(sums, pt, k) * ResidualDeci(sums, pt, k)])
    IN  IF n_ss_tot = 0 THEN NaN
        ELSE IF GradCp(sums, pt) = 0 /\ GradW(sums, pt) = 0
        THEN (IF det = 0 THEN <<0>> ELSE <<MilliRatio(cov * cov, det * n_ss_tot)>>)
        ELSE <<Milli - MilliRatio(ss_res_deci * sums.n, 100 * n_ss_tot)>>

\* cp_estimate, w_prime_estimate = popt and the r_squared of lines 132-136:
\* CP and r_squared in thousandths, W' in whole joules.
FitResult(durations, powers, popt) ==
    LET sums == FitSums(durations, Values(powers))
    IN  [cp |-> <<RoundDiv(Milli * popt.cp.num, popt.cp.den)>>,
         w_prime |-> <<RoundDiv(sums.L * popt.w.num, popt.w.den)>>,
         r_squared |-> RSquared(sums, popt)]

\* Mutation: the except ValueError clause is missing.
CaughtRuntimeErrorOnly(exception) == exception = "RuntimeError"

\* except RuntimeError / except ValueError
Caught(exception) == exception \in {"RuntimeError", "ValueError"}

\* estimate_cp_wprime: every outcome of the call, with what curve_fit did.
\* The first guess is computed before the try statement: without an ftp,
\* np.argmax of no durations raises ValueError there.
estimate_cp_wprime(mmp_data, ftp) ==
    IF Len(mmp_data) < 2
    THEN {[raised |-> "none", fit |-> "not run", result |-> NanResult]}
    ELSE LET filtered_data == FilteredData(mmp_data) IN
         IF TooFewFiltered(filtered_data)
         THEN {[raised |-> "none", fit |-> "not run", result |-> NanResult]}
         ELSE IF filtered_data = <<>> /\ ~(~IsNa(ftp) /\ ftp[1] > 0)
         THEN {[raised |-> "ValueError", fit |-> "not run", result |-> NanResult]}
         ELSE LET durations == [k \in 1..Len(filtered_data) |-> filtered_data[k][1]]
                  powers == [k \in 1..Len(filtered_data) |-> filtered_data[k][2]]
                  p0 == InitialGuess(durations, powers, ftp)
              IN  UNION {
                      IF o.raised = "none"
                      THEN {[raised |-> "none", fit |-> "ok",
                             result |-> FitResult(durations, powers, o.popt)]}
                      ELSE IF Caught(o.raised)
                      THEN {[raised |-> "none", fit |-> o.raised, result |-> NanResult]}
                      ELSE {[raised |-> o.raised, fit |-> o.raised, result |-> NanResult]} :
                      o \in curve_fit(durations, powers, p0, <<100, 5000>>, <<400, 50000>>)}

\* ---- the inputs of the CP specification ----
MaxMmpPoints == 4

MmpDurations == {60, 119, 120, 300}

\* Two powers and a NaN.
MmpPowers == {<<250>>, <<300>>, NaN}

CpCalls ==
    UNION {[mmp_data : [1..n -> MmpDurations \X MmpPowers], ftp : {NaN, <<0>>, <<DefaultFtp>>}] :
           n \in 0..MaxMmpPoints}

CpInit ==
    /\ uIn \in CpCalls
    /\ uOut = <<>>
    /\ uPhase = "in"

\* One call of estimate_cp_wprime(mmp_data, ftp).
CpEstimate ==
    /\ uPhase = "in"
    /\ \E out \in estimate_cp_wprime(uIn.mmp_data, uIn.ftp) : uOut' = out
    /\ uPhase' = "out"
    /\ UNCHANGED <<uIn, notUnit>>

\* The caller has stored the estimates; the next window is fitted.
CpDiscard ==
    /\ uPhase = "out"
    /\ uOut' = <<>>
    /\ uPhase' = "in"
    /\ UNCHANGED <<uIn, notUnit>>

CpNext == CpEstimate \/ CpDiscard

InitCp == CpInit /\ IdleButUnit

SpecCp == InitCp /\ [][CpNext]_vars

\* The number of points of at least 120 s among those handed in.
LongPoints ==
    Cardinality({k \in 1..Len(uIn.mmp_data) : uIn.mmp_data[k][1] >= 120})

\* C19: estimate_cp_wprime raises nothing, and it returns NaN for CP, W' and
\* r-squared whenever fewer than 3 points have a duration of at least 120 s
\* or the curve fit fails.
C19_NanNeverRaises ==
    uPhase = "out" =>
        /\ uOut.raised = "none"
        /\ (LongPoints < 3 \/ uOut.fit \in {"RuntimeError", "ValueError"}) =>
              /\ IsNa(uOut.result.cp)
              /\ IsNa(uOut.result.w_prime)
              /\ IsNa(uOut.result.r_squared)

\* Three points of at least 120 s have been handed in, one of them with a
\* NaN for its power: curve_fit has refused them with ValueError and NaN
\* has come back.
C19_Witness ==
    /\ uPhase = "out"
    /\ LongPoints = 3
    /\ \E k \in 1..Len(uIn.mmp_data) :
          uIn.mmp_data[k][1] >= 120 /\ IsNa(uIn.mmp_data[k][2])
    /\ uOut.fit = "ValueError"
    /\ uOut.raised = "none"
    /\ IsNa(uOut.result.cp)
    /\ IsNa(uOut.result.w_prime)
    /\ IsNa(uOut.result.r_squared)

\* C20: for every activity whose type is not Ride, VirtualRide or Run, a
\* Walk as well as an unknown type string, analyze raises ActivityTypeError
\* and computes no metrics.
C20_UnsupportedTypeError ==
    (aPhase = "out" /\ aIn.type \notin {"Ride", "VirtualRide", "Run"}) =>
        /\ aOut.error = "ActivityTypeError"
        /\ "raw_metrics" \notin DOMAIN aOut
        /\ "moving_metrics" \notin DOMAIN aOut

(***************************************************************************)
(* ThresholdEstimator.get_rolling_thresholds                               *)
(* (analysis/threshold_estimator.py).  Dates are whole days.  The history  *)
(* argument is Python's None or a table with its set of columns; ftp and   *)
(* fthr are whole watts and beats, on which round(float(x)) returns x.     *)
(* A returned value is <<x>>, a returned None is <<>>.                     *)
(***************************************************************************)
\* The history argument when it is None, and when it is a DataFrame.
NoTable == [some |-> FALSE, columns |-> {}, rows |-> <<>>]

Table(columns, rows) == [some |-> TRUE, columns |-> columns, rows |-> rows]

RequiredCols == {"date", "ftp", "fthr"}

NoThresholds == [raised |-> "none", ftp |-> PyNone, fthr |-> PyNone]

\* Mutation: the window has no lower end.
InWindowNoStart(row, activity_date, window_days) == row.date <= activity_date

\* The mask of the rolling window, both ends included.
InWindow(row, activity_date, window_days) ==
    /\ row.date >= activity_date - window_days
    /\ row.date <= activity_date

RelevantThresholds(rows, activity_date, window_days) ==
    {k \in 1..Len(rows) : InWindow(rows[k], activity_date, window_days)}

\* The rows that sort_values(["ftp", "date"], ascending=[False, False]) may
\* put first: the highest ftp, then the latest date.  Rows equal on both
\* keys keep no documented order, so each of them may come first.
BestFtpRows(rows, relevant) ==
    LET top == {k \in relevant : \A j \in relevant : rows[j].ftp <= rows[k].ftp}
    IN  {k \in top : \A j \in top : rows[j].date <= rows[k].date}

\* The set of outcomes of one call.
get_rolling_thresholds(historical_thresholds, activity_date, window_days) ==
    IF ~historical_thresholds.some
    THEN {[raised |-> "ValueError"]}
    ELSE IF historical_thresholds.rows = <<>>
    THEN {NoThresholds}
    ELSE IF ~(RequiredCols \subseteq historical_thresholds.columns)
    THEN {[raised |-> "ValueError"]}
    ELSE LET rows == historical_thresholds.rows
             relevant == RelevantThresholds(rows, activity_date, window_days)
         IN  IF relevant = {}
             THEN {NoThresholds}
             ELSE {[raised |-> "none", ftp |-> <<rows[k].ftp>>, fthr |-> <<rows[k].fthr>>] :
                   k \in BestFtpRows(rows, relevant)}

\* thresholds["fthr"] or self.settings.fthr
OrDefault(value, default) == IF value = 0 THEN default ELSE value

\* ThresholdEstimator.estimate with the latest start_date of the enriched
\* table: the set of outcomes.  Whatever the lookup raises is caught and
\* answered with the configured thresholds.
estimate(latest_date, historical_df, settings) ==
    LET defaults == [ftp |-> settings.ftp, fthr |-> settings.fthr] IN
    IF ~historical_df.some \/ historical_df.rows = <<>>
    THEN {defaults}
    ELSE {IF thresholds.raised # "none" THEN defaults
          ELSE IF thresholds.ftp # PyNone
          THEN [ftp |-> thresholds.ftp[1],
                fthr |-> OrDefault(thresholds.fthr[1], settings.fthr)]
          ELSE defaults :
             thresholds \in get_rolling_thresholds(historical_df, latest_date,
                                                   settings.ftp_rolling_window_days)}

MaxThrRows == 3

MaxThrDate == 2

MaxThrWindow == 1

ThrFtps == {200, 210}

ThrFthrs == {0, 160}

ThrRows == [date : 0..MaxThrDate, ftp : ThrFtps, fthr : ThrFthrs]

ThrTables ==
    {NoTable}
    \cup UNION {{Table(RequiredCols, rows) : rows \in [1..n -> ThrRows]} : n \in 0..MaxThrRows}
    \cup UNION {{Table({"date", "ftp"}, rows) : rows \in [1..n -> ThrRows]} : n \in 0..1}

ThrInit ==
    /\ uIn \in [historical_thresholds : ThrTables,
                activity_date : 0..MaxThrDate,
                window_days : 0..MaxThrWindow]
    /\ uOut = <<>>
    /\ uPhase = "in"

ThrCall ==
    /\ uPhase = "in"
    /\ \E out \in get_rolling_thresholds(uIn.historical_thresholds,
                                         uIn.activity_date, uIn.window_days) :
          uOut' = out
    /\ uPhase' = "out"
    /\ UNCHANGED <<uIn, notUnit>>

\* The settings of the estimator, with the window of the input.
ThrSettings ==
    [ftp |-> DefaultFtp, fthr |-> DefaultFthr, ftp_rolling_window_days |-> uIn.window_days]

\* A call of estimate on an enriched table whose latest start_date is the
\* activity date.
ThrEstimate ==
    /\ uPhase = "in"
    /\ \E out \in estimate(uIn.activity_date, uIn.historical_thresholds, ThrSettings) :
          uOut' = out
    /\ uPhase' = "estimated"
    /\ UNCHANGED <<uIn, notUnit>>

\* The caller has taken the thresholds.
ThrDiscard ==
    /\ uPhase \in {"out", "estimated"}
    /\ uOut' = <<>>
    /\ uPhase' = "in"
    /\ UNCHANGED <<uIn, notUnit>>

ThrNext == ThrCall \/ ThrEstimate \/ ThrDiscard

InitThr == ThrInit /\ IdleButUnit

SpecThr == InitThr /\ [][ThrNext]_vars

\* The rows of the history handed in that are dated within
\* [activity_date - window_days, activity_date].
RowsInWindow ==
    {k \in 1..Len(uIn.historical_thresholds.rows) :
        /\ uIn.historical_thresholds.rows[k].date >= uIn.activity_date - uIn.window_days
        /\ uIn.historical_thresholds.rows[k].date <= uIn.activity_date}

\* The answer is the (ftp, fthr) of a row of the window with the highest
\* ftp and, among those, the most recent date.
ReturnsBestOfWindow ==
    LET rows == uIn.historical_thresholds.rows
    IN  \E k \in RowsInWindow :
           /\ uOut.ftp = <<rows[k].ftp>>
           /\ uOut.fthr = <<rows[k].fthr>>
           /\ \A j \in RowsInWindow : rows[j].ftp <= rows[k].ftp
           /\ \A j \in RowsInWindow :
                 rows[j].ftp = rows[k].ftp => rows[j].date <= rows[k].date

\* C21 as stated: get_rolling_thresholds returns the (ftp, fthr) of the row
\* with the highest ftp in the window, ties broken by the most recent date,
\* and (None, None) when the history table is missing or empty or no row
\* falls in the window.
C21_MissingGivesNone ==
    uPhase = "out" =>
        /\ uOut.raised = "none"
        /\ IF ~uIn.historical_thresholds.some
           THEN uOut = NoThresholds
           ELSE IF RowsInWindow = {} THEN uOut = NoThresholds
                ELSE ReturnsBestOfWindow

\* C21: given a history table that has the columns date, ftp and fthr,
\* get_rolling_thresholds returns the (ftp, fthr) of the row with the highest
\* ftp in the window, ties broken by the most recent date, and (None, None)
\* when the table is empty or no row falls in the window; a missing table,
\* or a table with rows that lacks one of the columns, makes it raise
\* ValueError.
C21_RollingThresholds ==
    uPhase = "out" =>
        IF ~uIn.historical_thresholds.some
        THEN uOut.raised = "ValueError"
        ELSE IF uIn.historical_thresholds.rows = <<>>
        THEN uOut = NoThresholds
        ELSE IF ~(RequiredCols \subseteq uIn.historical_thresholds.columns)
        THEN uOut.raised = "ValueError"
        ELSE /\ uOut.raised = "none"
             /\ IF RowsInWindow = {} THEN uOut = NoThresholds
                ELSE ReturnsBestOfWindow

\* A row with the highest ftp of the table lies before the window, two rows
\* of the window tie on ftp, and the thresholds of the later one came back.
C21_Witness ==
    /\ uPhase = "out"
    /\ uIn.historical_thresholds.some
    /\ Len(uIn.historical_thresholds.rows) = 3
    /\ LET rows == uIn.historical_thresholds.rows
       IN  /\ rows[1].date < uIn.activity_date - uIn.window_days
           /\ rows[1].ftp = 210
           /\ RowsInWindow = {2, 3}
           /\ rows[2].ftp = 200 /\ rows[3].ftp = 200
           /\ rows[2].date > rows[3].date
           /\ rows[2].fthr # rows[3].fthr
           /\ uOut.raised = "none"
           /\ uOut.ftp = <<200>>
           /\ uOut.fthr = <<rows[2].fthr>>

(***************************************************************************)
(* Settings.__init__ (settings.py).  The keyword arguments are the fields  *)
(* of the configuration; a field that is not supplied is <<>>, a supplied  *)
(* one <<value>>.  A zone table is the sequence of its zones in the order  *)
(* of its keys.                                                            *)
(***************************************************************************)
\* The class defaults of the two zone tables.
DefaultPowerZones ==
    << Zone(0, 157), Zone(157, 214), Zone(214, 256), Zone(256, 299),
       Zone(299, 342), Zone(342, 427), LastZone(427) >>

DefaultHrZones ==
    << Zone(0, 129), Zone(129, 155), Zone(155, 170), Zone(170, 176), LastZone(176) >>

\* A field as pydantic sets it: the supplied value or the class default.
Field(data, name, default) ==
    IF data[name] = <<>> THEN default ELSE data[name][1]

\* Settings._compute_power_zones, branch of the lactate thresholds.
LtPowerZones(lt1, lt2) ==
    LET midpoint == (lt1 + lt2) \div 2
        z4_upper == IntPct(110, lt2)
        z5_upper == IntPct(125, lt2)
        z6_upper == IntPct(150, lt2)
    IN  << Zone(0, lt1), Zone(lt1, midpoint), Zone(midpoint, lt2),
           Zone(lt2, z4_upper), Zone(z4_upper, z5_upper),
           Zone(z5_upper, z6_upper), LastZone(z6_upper) >>

\* Settings._compute_hr_zones, branch of the lactate thresholds.
LtHrZones(lt1_hr, lt2_hr, fthr) ==
    LET max_hr == fthr + 6
    IN  << Zone(0, lt1_hr), Zone(lt1_hr, lt2_hr), Zone(lt2_hr, fthr),
           Zone(fthr, max_hr), LastZone(max_hr) >>

\* Settings._compute_power_zones: the table the object holds afterwards.
compute_power_zones(self) ==
    IF self.ftp <= 0 THEN self.power_zones
    ELSE IF self.lt1_power # <<>> /\ self.lt2_power # <<>>
    THEN LtPowerZones(self.lt1_power[1], self.lt2_power[1])
    ELSE CogganPowerZones(self.ftp)

\* Settings._compute_hr_zones: the table the object holds afterwards.
compute_hr_zones(self) ==
    IF self.fthr <= 0 THEN self.hr_zone_ranges
    ELSE IF self.lt1_hr # <<>> /\ self.lt2_hr # <<>>
    THEN LtHrZones(self.lt1_hr[1], self.lt2_hr[1], self.fthr)
    ELSE PercentHrZones(self.fthr)

\* Settings(**data): the fields are set, then both tables are recomputed.
Settings_init(data) ==
    LET self == [ftp |-> Field(data, "ftp", DefaultFtp),
                 fthr |-> Field(data, "fthr", DefaultFthr),
                 lt1_power |-> data.lt1_power,
                 lt2_power |-> data.lt2_power,
                 lt1_hr |-> data.lt1_hr,
                 lt2_hr |-> data.lt2_hr,
                 power_zones |-> Field(data, "power_zones", DefaultPowerZones),
                 hr_zone_ranges |-> Field(data, "hr_zone_ranges", DefaultHrZones)]
    IN  [self EXCEPT !.power_zones = compute_power_zones(self),
                     !.hr_zone_ranges = compute_hr_zones(self)]

\* load_settings(config_file): the mapping read from the YAML file, with its
\* paths made absolute, is handed to Settings.
load_settings(yaml_settings) == Settings_init(yaml_settings)

\* The configurations tried: thresholds left out, switched off (0) or set,
\* lactate thresholds left out or set, zone tables left out or supplied.
SuppliedPowerZones ==
    { << Zone(0, 100), Zone(101, 200), Zone(201, 300) >>,
      << Zone(0, 142), Zone(143, 199), Zone(200, 256) >> }

SuppliedHrZones ==
    { << Zone(0, 110), Zone(111, 129), Zone(130, 147) >> }

SetConfigs ==
    [ftp : {<<>>, <<0>>, <<CurFtp>>},
     fthr : {<<>>, <<0>>, <<CurFthr>>},
     lt1_power : {<<>>, <<150>>},
     lt2_power : {<<>>, <<250>>},
     lt1_hr : {<<>>, <<130>>},
     lt2_hr : {<<>>, <<150>>},
     power_zones : {<<>>} \cup {<<z>> : z \in SuppliedPowerZones},
     hr_zone_ranges : {<<>>} \cup {<<z>> : z \in SuppliedHrZones}]

SetInit ==
    /\ uIn \in SetConfigs
    /\ uOut = <<>>
    /\ uPhase = "in"

\* Settings(**config).
SetConstruct ==
    /\ uPhase = "in"
    /\ uOut' = Settings_init(uIn)
    /\ uPhase' = "out"
    /\ UNCHANGED <<uIn, notUnit>>

\* load_settings on a file holding the same configuration.
SetLoad ==
    /\ uPhase = "in"
    /\ uOut' = load_settings(uIn)
    /\ uPhase' = "loaded"
    /\ UNCHANGED <<uIn, notUnit>>

\* The settings object is dropped; the configuration is read again.
SetDiscard ==
    /\ uPhase \in {"out", "loaded"}
    /\ uOut' = <<>>
    /\ uPhase' = "in"
    /\ UNCHANGED <<uIn, notUnit>>

SetNext == SetConstruct \/ SetLoad \/ SetDiscard

InitSet == SetInit /\ IdleButUnit

SpecSet == InitSet /\ [][SetNext]_vars

\* C22: zone tables supplied in the configuration (power_zones,
\* hr_zone_ranges) override the computed defaults: after Settings
\* construction or load_settings the tables equal the supplied ones entry for
\* entry, including when ftp > 0 and fthr > 0.
C22_SuppliedZonesKept ==
    uPhase \in {"out", "loaded"} =>
        /\ uIn.power_zones # <<>> => uOut.power_zones = uIn.power_zones[1]
        /\ uIn.hr_zone_ranges # <<>> => uOut.hr_zone_ranges = uIn.hr_zone_ranges[1]

(***************************************************************************)
(* AdvancedPowerCalculator._calculate_w_prime_balance                      *)
(* (metrics/advanced_power.py).  Power and CP are whole watts, W' whole    *)
(* joules; a balance is held in 1/Milli of a joule.  CP - P is a multiple  *)
(* of 50 W in every stream tried, and factors are as in the training load: *)
(* e^(-0.01 d) in thousandths, 1 - e^(-1/tau) in millionths.               *)
(***************************************************************************)
\* round(1000 * e^(-0.01 * d)) for d = 0, 50, 100, ..., 500.
ExpNegCenti == <<1000, 607, 368, 223, 135, 82, 50, 30, 18, 11, 7>>

\* tau = 546 * np.exp(-0.01 * (cp - power[i])) + 316, in thousandths.
Tau(cp, power) == 546 * ExpNegCenti[((cp - power) \div 50) + 1] + 316 * 1000

\* 1 - np.exp(-1 / tau) in millionths: x - x^2/2 for x = 1/tau.
RecoveryRate(tau) ==
    LET x == 1000000000 \div tau
    IN  x - ((x * x) \div 2000000)

\* np.clip(x, lo, hi)
Clip(x, lo, hi) == IF x < lo THEN lo ELSE IF x > hi THEN hi ELSE x

\* Mutation: the balance is kept from exceeding W' but not from going below 0.
ClampBalanceAbove(x, w_prime) == IF x > w_prime THEN w_prime ELSE x

\* w_balance[i] = np.clip(w_balance[i], 0, w_prime)
ClampBalance(x, w_prime) == Clip(x, 0, w_prime)

\* One pass of the loop body: w_balance[i] from w_balance[i - 1].
NextBalance(prev, power, cp, w_prime) ==
    IF power > cp
    THEN ClampBalance(prev - (power - cp) * Milli, w_prime)
    ELSE LET w_recovered ==
                 ((w_prime - prev) * RecoveryRate(Tau(cp, power))) \div 1000000
         IN  ClampBalance(prev + w_recovered, w_prime)

\* The array w_balance after the passes lo..hi of the first loop (0-based
\* index i of the code is position i + 1 here).  The passes are run in order;
\* the range is halved, and the first half is computed before the second is
\* entered, to keep the evaluation shallow.
RECURSIVE BalanceLoop(_, _, _, _, _, _)
BalanceLoop(w_balance, power, cp, w_prime, lo, hi) ==
    IF lo > hi THEN w_balance
    ELSE IF lo = hi
    THEN Append(w_balance, NextBalance(w_balance[lo - 1], power[lo], cp, w_prime))
    ELSE LET mid == (lo + hi) \div 2
         IN  CHOOSE done \in {BalanceLoop(half, power, cp, w_prime, mid + 1, hi) :
                              half \in {BalanceLoop(w_balance, power, cp, w_prime, lo, mid)}} :
                 TRUE

WBalance(power, cp, w_prime) ==
    BalanceLoop(<<w_prime * Milli>>, power, cp, w_prime * Milli, 2, Len(power))

\* Mutation: a match ends as soon as the balance is back above 50% of W'.
MatchOverAtHalf(w, w_prime) == 2 * w > w_prime

\* w_pct_balance[i] < match_threshold
BelowMatchThreshold(w, w_prime) == 2 * w < w_prime

\* w_pct_balance[i] > match_threshold + 0.1
MatchOver(w, w_prime) == 10 * w > 6 * w_prime

\* One pass of the second loop on [match_count, in_match].
MatchStep(st, w, w_prime) ==
    IF BelowMatchThreshold(w, w_prime) /\ ~st.in_match
    THEN [match_count |-> st.match_count + 1, in_match |-> TRUE]
    ELSE IF MatchOver(w, w_prime)
    THEN [st EXCEPT !.in_match = FALSE]
    ELSE st

\* The passes lo..hi of the second loop, in order.
RECURSIVE MatchLoop(_, _, _, _, _)
MatchLoop(st, w_balance, w_prime, lo, hi) ==
    IF lo > hi THEN st
    ELSE IF lo = hi THEN MatchStep(st, w_balance[lo], w_prime)
    ELSE LET mid == (lo + hi) \div 2
         IN  CHOOSE done \in {MatchLoop(half, w_balance, w_prime, mid + 1, hi) :
                              half \in {MatchLoop(st, w_balance, w_prime, lo, mid)}} :
                 TRUE

\* np.min(w_balance[lo..hi])
RECURSIVE MinRange(_, _, _)
MinRange(s, lo, hi) ==
    IF lo = hi THEN s[lo]
    ELSE LET mid == (lo + hi) \div 2
         IN  Min2(MinRange(s, lo, mid), MinRange(s, mid + 1, hi))

calculate_w_prime_balance(power, settings) ==
    IF settings.cp = 0 \/ settings.w_prime = 0
    THEN [raised |-> "none", w_prime_balance_min |-> 0, match_burn_count |-> 0]
    ELSE IF power = <<>>
    THEN [raised |-> "IndexError"]
    ELSE LET w_balance == WBalance(power, settings.cp, settings.w_prime)
         IN  [raised |-> "none",
              w_prime_balance_min |-> MinRange(w_balance, 1, Len(w_balance)),
              match_burn_count |->
                  MatchLoop([match_count |-> 0, in_match |-> FALSE], w_balance,
                            settings.w_prime * Milli, 2, Len(w_balance)).match_count]

\* The rides tried: up to MaxSegments stretches of constant power, each of
\* 2, 100 or 200 samples, for a rider with CP 200 W and W' 500 J, or with
\* one of the two switched off.
MaxSegments == 3

SegmentPowers == {0, 250, 500}

SegmentLengths == {2, 100, 200}

\* The watts column of a ride made of the given stretches.
RECURSIVE Expand(_)
Expand(segments) ==
    IF segments = <<>> THEN <<>>
    ELSE [k \in 1..Head(segments)[2] |-> Head(segments)[1]] \o Expand(Tail(segments))

WbalRides ==
    UNION {[1..n -> SegmentPowers \X SegmentLengths] : n \in 0..MaxSegments}

WbalSettings ==
    {[cp |-> 200, w_prime |-> 500], [cp |-> 0, w_prime |-> 500], [cp |-> 200, w_prime |-> 0]}

WbalInit ==
    /\ uIn \in [segments : WbalRides, settings : WbalSettings]
    /\ uOut = <<>>
    /\ uPhase = "in"

WbalCall ==
    /\ uPhase = "in"
    /\ uOut' = calculate_w_prime_balance(Expand(uIn.segments), uIn.settings)
    /\ uPhase' = "out"
    /\ UNCHANGED <<uIn, notUnit>>

\* The metrics have been merged into those of the activity.
WbalDiscard ==
    /\ uPhase = "out"
    /\ uOut' = <<>>
    /\ uPhase' = "in"
    /\ UNCHANGED <<uIn, notUnit>>

WbalNext == WbalCall \/ WbalDiscard

InitWbal == WbalInit /\ IdleButUnit

SpecWbal == InitWbal /\ [][WbalNext]_vars

\* The watts of the ride handed in, and the balance after each sample of it.
RidePower == Expand(uIn.segments)

RideBalance == WBalance(RidePower, uIn.settings.cp, uIn.settings.w_prime)

\* The balance has been computed: CP and W' are set and the ride has samples.
BalanceComputed ==
    /\ uPhase = "out"
    /\ uIn.settings.cp > 0
    /\ uIn.settings.w_prime > 0
    /\ uIn.segments # <<>>

\* C23: with CP > 0 and W' > 0 the balance starts at W', decreases by
\* P[t] - CP on every step with P[t] > CP (stopping at 0) and otherwise
\* recovers toward W', and after every step satisfies 0 <= W_bal <= W'; the
\* emitted w_prime_balance_min is the minimum of that trajectory and lies in
\* [0, W'].
C23_BalanceWithinBounds ==
    BalanceComputed =>
        LET w == RideBalance
            P == RidePower
            cp == uIn.settings.cp
            full == uIn.settings.w_prime * Milli
        IN  /\ Len(w) = Len(P)
            /\ w[1] = full
            /\ \A t \in 2..Len(w) :
                  /\ 0 <= w[t] /\ w[t] <= full
                  /\ P[t] > cp =>
                        w[t] = Max2(w[t - 1] - (P[t] - cp) * Milli, 0)
                  /\ P[t] <= cp => w[t - 1] <= w[t]
            /\ uOut.raised = "none"
            /\ \E t \in 1..Len(w) : uOut.w_prime_balance_min = w[t]
            /\ \A t \in 1..Len(w) : uOut.w_prime_balance_min <= w[t]
            /\ 0 <= uOut.w_prime_balance_min
            /\ uOut.w_prime_balance_min <= full

\* A ride has emptied the balance, which stopped at 0, and has then let it
\* recover by a strictly positive amount without reaching W' again.
C23_Witness ==
    /\ BalanceComputed
    /\ Len(uIn.segments) = 2
    /\ uIn.segments[1] = <<500, 100>>
    /\ uIn.segments[2] = <<0, 200>>
    /\ uOut.w_prime_balance_min = 0
    /\ LET w == RideBalance
       IN  /\ w[100] = 0
           /\ w[101] > 0
           /\ w[300] > w[101]
           /\ w[300] < uIn.settings.w_prime * Milli

\* The balance after sample t is below 50% of W', resp. above 60% of W'.
BelowHalf(w, t) == 2 * w[t] < uIn.settings.w_prime * Milli

AboveSixty(w, t) == 10 * w[t] > 6 * uIn.settings.w_prime * Milli

\* The samples at which a match starts: the balance is below 50% of W' and
\* either it has not been below 50% before, or it has been above 60% since
\* it was last below 50%.  (A sample whose predecessor is below 50% already
\* cannot satisfy this; it is set aside first.)
MatchStarts(w) ==
    {t \in 2..Len(w) :
        /\ BelowHalf(w, t)
        /\ ~BelowHalf(w, t - 1)
        /\ \/ \A j \in 2..(t - 1) : ~BelowHalf(w, j)
           \/ \E k \in 2..(t - 1) :
                 /\ AboveSixty(w, k)
                 /\ \A j \in (k + 1)..(t - 1) : ~BelowHalf(w, j)}

\* C24: match_burn_count counts one event each time the balance falls below
\* 50% of W' while no match is in progress, and a further event only after
\* the balance has risen above 60% of W' since the previous one; a balance
\* that oscillates between 50% and 60% of W' adds no events.
C24_MatchHysteresis ==
    BalanceComputed =>
        uOut.match_burn_count = Cardinality(MatchStarts(RideBalance))

\* The balance has fallen to 40% of W', recovered to between 50% and 60%,
\* and fallen below 50% again: one match.
C24_Witness ==
    /\ BalanceComputed
    /\ uIn.segments = << <<500, 2>>, <<0, 100>>, <<250, 2>> >>
    /\ LET w == RideBalance
       IN  /\ BelowHalf(w, 2)
           /\ ~BelowHalf(w, 102) /\ ~AboveSixty(w, 102)
           /\ BelowHalf(w, 104)
    /\ uOut.match_burn_count = 1

(***************************************************************************)
(* MetricsCalculator.compute_all_metrics when a step fails                 *)
(* (metrics/calculators.py).  A fault names the step in which an exception *)
(* is raised and the place in it.  Power, advanced power, climbing, heart  *)
(* rate, efficiency, pace and basic metrics run their computation inside a *)
(* try block of their own and return their empty metrics, which carry the  *)
(* same names, and the power-curve step returns the names it had gathered; *)
(* the statements of these steps before the try block (the moving filter,  *)
(* the prefix, the column tests) are not covered by it.  The zone, TID and *)
(* fatigue calculators have no try block.  What a step does not catch      *)
(* reaches the try block of compute_all_metrics and ends it.               *)
(***************************************************************************)
Calculators ==
    <<"power", "advanced_power", "climbing", "power_curve", "heartrate",
      "efficiency", "pace", "basic", "zones", "tid", "tid_classification",
      "fatigue", "interval_fatigue">>

\* The steps that catch what the body of their computation raises: the
\* calculators with a try block, and _calculate_power_curve_metrics.
CatchesOwn ==
    {"power", "advanced_power", "climbing", "power_curve", "heartrate", "efficiency",
     "pace", "basic"}

\* The steps that compute_all_metrics runs for the activity type.
StepRuns(step, activity_type) ==
    LET is_cycling == activity_type \in {"ride", "virtualride", "virtual_ride"}
        is_running == activity_type = "run"
    IN  CASE step \in {"power", "advanced_power", "climbing", "power_curve",
                       "interval_fatigue"} -> is_cycling
          [] step = "pace" -> is_running
          [] OTHER -> TRUE

\* The names a step adds to all_metrics.
StepKeys(step, view, settings) ==
    CASE step = "power" -> PowerCalculatorKeys(view, FALSE)
      [] step = "advanced_power" -> AdvancedPowerKeys(view)
      [] step = "climbing" -> ClimbingKeys(view)
      [] step = "power_curve" -> PowerCurveKeys(view)
      [] step = "heartrate" -> HeartRateKeys(view, FALSE)
      [] step = "efficiency" -> EfficiencyKeys(view, FALSE)
      [] step = "pace" -> PaceKeys(view, FALSE)
      [] step = "basic" -> BasicCalculatorKeys(view, FALSE)
      [] step = "zones" -> ZoneKeys(view, settings)
      [] step = "tid" -> TidKeys(view, settings)
      [] step = "tid_classification" -> TidClassificationKeys(TidKeys(view, settings))
      [] step = "fatigue" -> FatigueKeys(view)
      [] step = "interval_fatigue" -> IntervalFatigueKeys(view)

\* The names a step of CatchesOwn returns when the body of its try block
\* raises: a calculator returns its empty metrics, which carry the names of
\* its metrics; _calculate_power_curve_metrics returns the names gathered
\* from the intervals handled before the raise, done of them (none when the
\* read of the watts column raises).
CaughtKeys(step, view, settings, done) ==
    IF step = "power_curve" THEN PowerCurveGathered(view, done)
    ELSE StepKeys(step, view, settings)

\* The try block of compute_all_metrics from step i on, all_metrics holding
\* the names gathered so far: an exception that reaches it (raised in a step
\* without a try block, or before the try block of a step) ends the block,
\* and the names of that step and of the steps after it are not gathered.
RECURSIVE TryBlock(_, _, _, _, _, _)
TryBlock(i, all_metrics, view, activity_type, settings, fault) ==
    IF i > Len(Calculators)
    THEN [metrics |-> all_metrics, logged |-> FALSE]
    ELSE IF ~StepRuns(Calculators[i], activity_type)
    THEN TryBlock(i + 1, all_metrics, view, activity_type, settings, fault)
    ELSE IF /\ fault.step = Calculators[i]
            /\ (fault.at = "entry" \/ fault.step \notin CatchesOwn)
    THEN [metrics |-> all_metrics, logged |-> TRUE]
    ELSE IF fault.step = Calculators[i]
    THEN TryBlock(i + 1,
                  all_metrics \cup CaughtKeys(Calculators[i], view, settings, fault.done),
                  view, activity_type, settings, fault)
    ELSE TryBlock(i + 1, all_metrics \cup StepKeys(Calculators[i], view, settings),
                  view, activity_type, settings, fault)

\* compute_all_metrics(stream_df, activity_type, include_power_curve=True)
\* with the fault: what it returns and whether it logged an error.
compute_all_metrics_with(view, activity_type, settings, fault) ==
    LET block == TryBlock(1, {}, view, activity_type, settings, fault)
    IN  [raised |-> "none",
         metrics |-> block.metrics \cup BasicTemporalKeys(view),
         logged |-> block.logged]

NoFault == [step |-> "none", at |-> "none", done |-> 0]

\* Where the computation raises, if anywhere: the step; the place in it,
\* "entry" for the statements before its try block and "body" for the rest;
\* and, in the body of the power-curve step, the number of intervals of the
\* settings handled before the one at which it raises.
Faults ==
    {NoFault}
    \cup {[step |-> Calculators[i], at |-> at, done |-> 0] :
             i \in 1..Len(Calculators), at \in {"entry", "body"}}
    \cup {[step |-> "power_curve", at |-> "body", done |-> done] :
             done \in 1..(Len(power_curve_intervals) - 1)}

CalcInit ==
    /\ uIn \in [act : {a \in AnaActivities : a.type \in {"Ride", "VirtualRide", "Run"}},
                fault : Faults]
    /\ uOut = <<>>
    /\ uPhase = "in"

\* The raw view of the activity is handed to compute_all_metrics.
CalcCompute ==
    /\ uPhase = "in"
    /\ uOut' = compute_all_metrics_with(
                   View(uIn.act, split(uIn.act.stream).raw_df, FALSE),
                   Lower(uIn.act.type), OldSettings, uIn.fault)
    /\ uPhase' = "out"
    /\ UNCHANGED <<uIn, notUnit>>

\* The analyzer has taken the metrics.
CalcDiscard ==
    /\ uPhase = "out"
    /\ uOut' = <<>>
    /\ uPhase' = "in"
    /\ UNCHANGED <<uIn, notUnit>>

CalcNext == CalcCompute \/ CalcDiscard

InitCalc == CalcInit /\ IdleButUnit

SpecCalc == InitCalc /\ [][CalcNext]_vars

\* C25: compute_all_metrics returns normally for every view, and when one
\* calculator fails the metrics of that calculator and of all the others are
\* still emitted: every name of the run without failure is in the result.
C25_FailureKeepsMetrics ==
    uPhase = "out" =>
        /\ uOut.raised = "none"
        /\ compute_all_metrics(View(uIn.act, split(uIn.act.stream).raw_df, FALSE),
                               Lower(uIn.act.type), OldSettings)
               \subseteq uOut.metrics

\* C26: after process returns, the time column of the processed stream is
\* strictly increasing, whatever the order of the input samples and whether
\* or not the input has duplicate timestamps.
C26_TimeStrictlyIncreasing ==
    (uPhase = "out" /\ uOut.raised = "none" /\ "time" \in uOut.df.cols) =>
        \A i \in 2..Len(uOut.df.rows) :
            uOut.df.rows[i - 1].time[1] < uOut.df.rows[i].time[1]

\* The activities a run selected as pending and then skipped.
Skipped(run) ==
    {run.pending[k] : k \in {n \in 1..Len(run.pending) :
                                run.streams[run.pending[n].id] \notin Analysable}}

\* C29: a run adds no row to either table for a pending activity it skips;
\* every later run selects the activity as pending again as long as no run
\* has processed it; and a later run that finds its stream readable adds one
\* row for it to the new raw and the new moving table, ends well unless a
\* write fails, and leaves the activity in both files.
C29_SkippedIsRetried ==
    \A i \in 1..Len(pHist) :
        \A a \in Skipped(pHist[i]) :
            /\ CountId(pHist[i].new.raw_df, a.id) = 0
            /\ CountId(pHist[i].new.moving_df, a.id) = 0
            /\ \A n \in {RawFile, MovingFile} :
                  CountId(pHist[i].after[n].rows, a.id)
                      <= CountId(pHist[i].before[n].rows, a.id)
            /\ \A j \in (i + 1)..Len(pHist) :
                  (/\ pHist[j].stage # "load"
                   /\ \A k \in (i + 1)..(j - 1) :
                         CountId(pHist[k].new.raw_df, a.id) = 0) =>
                      /\ a.id \in Ids(pHist[j].pending)
                      /\ pHist[j].streams[a.id] \in Analysable =>
                            /\ CountId(pHist[j].new.raw_df, a.id) = 1
                            /\ CountId(pHist[j].new.moving_df, a.id) = 1
                            /\ pHist[j].stage # "save" =>
                                  /\ pHist[j].ok
                                  /\ CountId(pHist[j].after[RawFile].rows, a.id) >= 1
                                  /\ CountId(pHist[j].after[MovingFile].rows, a.id) >= 1

(***************************************************************************)
(* ActivityRepository: the activities cache (data/repository.py).          *)
(*                                                                         *)
(* uOut is the repository object: its cache (<<>> for None, <<rows>> for a *)
(* table) and the number of times the file has been read since the cache   *)
(* was last cleared.  uIn is what surrounds it: the activities file (<<>>  *)
(* when it does not exist), the table the caller holds from its last       *)
(* query, whether that table is the very object the cache holds, the rows  *)
(* read from the file by the last load, and whether the caller has changed *)
(* a table since.  uPhase tells what the last call was.                    *)
(***************************************************************************)
\* Mutation: the cache object itself is handed out.
SameObject(rows) == [rows |-> rows, shared |-> TRUE]

\* DataFrame.copy(): a new object with the same rows.
Copy(rows) == [rows |-> rows, shared |-> FALSE]

\* get_all_activities on the repository: the repository afterwards, the
\* object returned, and the rows read if the file had to be loaded.
get_all_activities(repo, file) ==
    IF repo.cache # <<>>
    THEN [raised |-> "none", repo |-> repo, result |-> Copy(repo.cache[1]), read |-> <<>>]
    ELSE IF file = <<>>
    THEN [raised |-> "DataLoadError", repo |-> repo, result |-> Copy(<<>>), read |-> <<>>]
    ELSE [raised |-> "none",
          repo |-> [cache |-> file, loads |-> repo.loads + 1],
          result |-> Copy(file[1]),
          read |-> file]

\* activities[activities["type"].isin(supported_types)].copy()
SupportedRows(rows) ==
    SelectSeq(rows, LAMBDA a : a.type \in {"Ride", "VirtualRide", "Run"})

\* invalidate_cache
invalidate_cache(repo) == [cache |-> <<>>, loads |-> 0]

MaxRepoRows == 2

RepoTypes == {"Ride", "Walk"}

RepoFiles ==
    {<<>>} \cup
    UNION {{<<rows>> : rows \in [1..n -> [id : 1..MaxRepoRows, type : RepoTypes]]} :
           n \in 0..MaxRepoRows}

RepoInit ==
    /\ uIn \in [file : RepoFiles, held : {<<>>}, shared : {FALSE},
                read : {<<>>}, changed : {FALSE}]
    /\ uOut = invalidate_cache(<<>>)
    /\ uPhase = "new"

\* The effect of a query on the state.
Queried(call, rows, phase) ==
    /\ uOut' = call.repo
    /\ IF call.raised = "none"
       THEN /\ uIn' = [uIn EXCEPT !.held = rows,
                                  !.shared = call.result.shared,
                                  !.read = IF call.read = <<>> THEN @ ELSE call.read,
                                  !.changed = IF call.read = <<>> THEN @ ELSE FALSE]
            /\ uPhase' = phase
       ELSE /\ uIn' = uIn
            /\ uPhase' = "raised"
    /\ UNCHANGED notUnit

RepoGetAll ==
    /\ uOut.loads < 2
    /\ LET call == get_all_activities(uOut, uIn.file)
       IN  Queried(call, call.result.rows, "all")

\* get_supported_activities: the filtered rows are a table of their own.
RepoGetSupported ==
    /\ uOut.loads < 2
    /\ LET call == get_all_activities(uOut, uIn.file)
       IN  Queried([call EXCEPT !.result = Copy(SupportedRows(call.result.rows))],
                   SupportedRows(call.result.rows), "supported")

\* The caller changes the table it holds: it drops the first row, or
\* retypes it.  A change to the object the cache holds changes the cache.
RepoCallerChanges ==
    /\ uPhase \in {"all", "supported", "changed"}
    /\ uIn.held # <<>>
    /\ \E rows \in {Tail(uIn.held), [uIn.held EXCEPT ![1].type = "Run"]} :
          /\ uIn' = [uIn EXCEPT !.held = rows, !.changed = TRUE]
          /\ uOut' = IF uIn.shared /\ uOut.cache # <<>>
                     THEN [uOut EXCEPT !.cache = <<rows>>]
                     ELSE uOut
    /\ uPhase' = "changed"
    /\ UNCHANGED notUnit

\* The activities file is rewritten, created or removed by a sync.
RepoFileChanges ==
    /\ \E file \in RepoFiles :
          /\ file # uIn.file
          /\ uIn' = [uIn EXCEPT !.file = file]
    /\ UNCHANGED <<uOut, uPhase, notUnit>>

RepoInvalidate ==
    /\ uOut' = invalidate_cache(uOut)
    /\ uIn' = [uIn EXCEPT !.shared = FALSE]
    /\ uPhase' = "invalidated"
    /\ UNCHANGED notUnit

RepoNext ==
    \/ RepoGetAll
    \/ RepoGetSupported
    \/ RepoCallerChanges
    \/ RepoFileChanges
    \/ RepoInvalidate

InitRepo == RepoInit /\ IdleButUnit

SpecRepo == InitRepo /\ [][RepoNext]_vars

\* C27: the cache changes only through invalidate_cache: between two
\* invalidations the file is read at most once, the cache holds the rows
\* that were read, every query returns them (get_supported_activities the
\* supported ones among them), whatever the caller has done to the tables it
\* got earlier and whatever has happened to the file.
C27_CacheOnlyInvalidated ==
    /\ uOut.loads <= 1
    /\ uOut.cache # <<>> => uOut.cache = uIn.read
    /\ uPhase = "all" => uIn.held = uIn.read[1]
    /\ uPhase = "supported" => uIn.held = SupportedRows(uIn.read[1])

\* A query has returned the rows read earlier although the caller has
\* changed a table it got since the load and the file holds other rows now.
C27_Witness ==
    /\ uPhase = "all"
    /\ uIn.changed
    /\ uIn.file # uIn.read
    /\ uOut.loads = 1
    /\ Len(uIn.held) = 2

====
